---- MODULE Spec2Model ----
(***************************************************************************)
(* State-machine model of the MassiveSweeper backend (src/server.js with   *)
(* the constants of src/unnamed/part_000): the complete grid, the chunk    *)
(* cache, the two process-wide counters, and one action per socket event   *)
(* or HTTP endpoint that touches them.  Node runs every handler to         *)
(* completion on one event loop, so each handler is one atomic action.     *)
(***************************************************************************)
EXTENDS Integers, Sequences, FiniteSets, TLC

(***************************************************************************)
(* Configuration (src/unnamed/part_000).  The world is instantiated small  *)
(* so that it can be explored exhaustively; the code is parametric in      *)
(* these values.                                                           *)
(***************************************************************************)
CHUNK_SIZE == 2

GRID_WIDTH == 4

GRID_HEIGHT == 2

\* Mine densities explored, in hundredths: the shipped 0.17 and a mine-free world.
MinePercentages == {0, 17}

\* Number of handler invocations explored in one behaviour.
MaxOps == 3

\* Number of handler invocations explored when every handler takes part.
MaxServerOps == 2

\* Chunk coordinates a cell request may carry: from one chunk before the world to
\* the world's last chunk, per axis.  Together with the local coordinates below
\* they address every cell and both sides of the world on either axis.
ReqCx == (0 - 1) .. ((GRID_WIDTH - 1) \div CHUNK_SIZE)

ReqCy == (0 - 1) .. ((GRID_HEIGHT - 1) \div CHUNK_SIZE)

\* Local coordinates a request may carry; CHUNK_SIZE itself is out of range.
LocalCoords == 0 .. CHUNK_SIZE

Requests == [cx : ReqCx, cy : ReqCy, x : LocalCoords, y : LocalCoords]

\* Chunk coordinates a get_chunk request may carry: one chunk either side of the world.
ChunkCx == (0 - 1) .. ((GRID_WIDTH - 1) \div CHUNK_SIZE + 1)

ChunkCy == (0 - 1) .. ((GRID_HEIGHT - 1) \div CHUNK_SIZE + 1)

VARIABLES
    completeGrid,      \* completeGrid[y][x]: the cell records (server.js:36)
    gridChunks,        \* chunk cache, key <<cx,cy>> -> extracted chunk (server.js:37)
    uniqueUsersEver,   \* server.js:179
    bombsExploded,     \* server.js:180
    MINE_PERCENTAGE,   \* configured density in hundredths, fixed for the process
    last,              \* observer: the handler that ran last, its target and result
    nops,              \* observer: number of handler invocations so far
    call,              \* the function running on the event loop's stack, if any
    random             \* the outcomes Math.random() yields where they are drawn ahead

vars == <<completeGrid, gridChunks, uniqueUsersEver, bombsExploded,
          MINE_PERCENTAGE, last, nops, call, random>>

Xs == 0 .. (GRID_WIDTH - 1)

Ys == 0 .. (GRID_HEIGHT - 1)

\* The bounds test repeated in every operation (server.js:121, 188, 228, 259, 283).
InBounds(x, y) == x >= 0 /\ x < GRID_WIDTH /\ y >= 0 /\ y < GRID_HEIGHT

\* The (dx,dy) pairs in the order of the nested loops "for dy / for dx", (0,0) skipped.
Offsets ==
    << <<0 - 1, 0 - 1>>, <<0, 0 - 1>>, <<1, 0 - 1>>,
       <<0 - 1, 0>>,                   <<1, 0>>,
       <<0 - 1, 1>>,     <<0, 1>>,     <<1, 1>> >>

\* JavaScript's % : the remainder takes the sign of the dividend.
JsMod(a, b) == IF a >= 0 THEN a % b ELSE 0 - ((0 - a) % b)

\* Math.floor(a / b) for b > 0.
FloorDiv(a, b) == a \div b

\* Math.round(totalCells * MINE_PERCENTAGE), the density given in hundredths.
RoundMineCount(totalCells, pct) == (2 * totalCells * pct + 100) \div 200

\* The grid built by the two loops of initializeCompleteGrid, before mines are placed.
EmptyGrid ==
    [y \in Ys |-> [x \in Xs |->
        [x |-> x, y |-> y, revealed |-> FALSE, hasMine |-> FALSE,
         adjacentMines |-> 0, flagged |-> FALSE]]]

\* Every grid the rejection-sampling loop can end with: a random (x,y) is drawn,
\* a mine is placed there if the cell has none, until placed reaches mineCount.
\* A rejected draw leaves grid and placed as they were and adds no outcome.
RECURSIVE placeLoop(_, _, _)
\* placeLoop with the loop test "placed <= mineCount".
placeLoopOneMore(grid, placed, mineCount) ==
    IF ~(placed <= mineCount) THEN {grid}
    ELSE UNION { IF ~grid[y][x].hasMine
                 THEN placeLoop([grid EXCEPT ![y][x].hasMine = TRUE], placed + 1, mineCount)
                 ELSE {}
                 : x \in Xs, y \in Ys }

placeLoop(grid, placed, mineCount) ==
    IF ~(placed < mineCount) THEN {grid}
    ELSE UNION { IF ~grid[y][x].hasMine
                 THEN placeLoop([grid EXCEPT ![y][x].hasMine = TRUE], placed + 1, mineCount)
                 ELSE {}
                 : x \in Xs, y \in Ys }

placeMinesInCompleteGrid(grid, pct) ==
    placeLoop(grid, 0, RoundMineCount(GRID_WIDTH * GRID_HEIGHT, pct))

RECURSIVE countLoop(_, _, _, _)
\* countAdjacentMinesInCompleteGrid with the diagonal neighbours left out.
countOrthogonalOnly(grid, x, y) ==
    Cardinality({ i \in 1 .. Len(Offsets) :
        /\ Offsets[i][1] = 0 \/ Offsets[i][2] = 0
        /\ InBounds(x + Offsets[i][1], y + Offsets[i][2])
        /\ grid[y + Offsets[i][2]][x + Offsets[i][1]].hasMine })

countLoop(grid, x, y, i) ==
    IF i > Len(Offsets) THEN 0
    ELSE LET nx == x + Offsets[i][1]
             ny == y + Offsets[i][2]
         IN (IF InBounds(nx, ny) /\ grid[ny][nx].hasMine THEN 1 ELSE 0)
            + countLoop(grid, x, y, i + 1)

countAdjacentMinesInCompleteGrid(grid, x, y) == countLoop(grid, x, y, 1)

calculateAdjacentCountsForCompleteGrid(grid) ==
    [y \in Ys |-> [x \in Xs |->
        [grid[y][x] EXCEPT !.adjacentMines = countAdjacentMinesInCompleteGrid(grid, x, y)]]]

\* The grids initializeCompleteGrid can produce (server.js:42-69).
initializeCompleteGrid(pct) ==
    { calculateAdjacentCountsForCompleteGrid(g) : g \in placeMinesInCompleteGrid(EmptyGrid, pct) }

\* The same, tabulated once per configured density.
InitialGrids == [pct \in MinePercentages |-> initializeCompleteGrid(pct)]

\* A record whose local coordinates are the global ones, not reduced modulo
\* CHUNK_SIZE.
CellRecordUnreduced(gx, gy) ==
    [cx |-> FloorDiv(gx, CHUNK_SIZE), cy |-> FloorDiv(gy, CHUNK_SIZE),
     x |-> gx, y |-> gy, cell |-> <<gx, gy>>]

\* The record pushed for a cell revealed inside a flood fill or a chord: chunk and
\* local coordinates recomputed from the global ones; cell is the reference to the
\* grid cell, held here as its position.
CellRecord(gx, gy) ==
    [cx |-> FloorDiv(gx, CHUNK_SIZE), cy |-> FloorDiv(gy, CHUNK_SIZE),
     x |-> JsMod(gx, CHUNK_SIZE), y |-> JsMod(gy, CHUNK_SIZE), cell |-> <<gx, gy>>]

RECURSIVE flood(_, _, _)
\* A neighbour loop that skips the four diagonal neighbours.
floodOrthogonalNeighbour(st, globalX, globalY, i) ==
    LET nx == globalX + Offsets[i][1]
        ny == globalY + Offsets[i][2]
    IN IF /\ Offsets[i][1] = 0 \/ Offsets[i][2] = 0
          /\ InBounds(nx, ny)
          /\ ~st.grid[ny][nx].revealed
          /\ ~st.grid[ny][nx].flagged
          /\ ~st.grid[ny][nx].hasMine
       THEN flood(st, nx, ny)
       ELSE st

\* One iteration of the neighbour loops of flood (server.js:224-233), for the
\* i-th (dx,dy): the recursive call is made only for an in-bounds neighbour that is
\* unrevealed, unflagged and mine-free in the grid as it is at that moment.
floodNeighbour(st, globalX, globalY, i) ==
    LET nx == globalX + Offsets[i][1]
        ny == globalY + Offsets[i][2]
    IN IF /\ InBounds(nx, ny)
          /\ ~st.grid[ny][nx].revealed
          /\ ~st.grid[ny][nx].flagged
          /\ ~st.grid[ny][nx].hasMine
       THEN flood(st, nx, ny)
       ELSE st

\* flood that goes on from every cell it reveals, numbered ones included.
floodPastNumbers(st, globalX, globalY) ==
    IF <<globalX, globalY>> \in st.visited THEN st
    ELSE LET st1 == [st EXCEPT !.visited = @ \cup {<<globalX, globalY>>}]
             cell == st1.grid[globalY][globalX]
         IN IF cell.revealed \/ cell.flagged THEN st1
            ELSE LET st2 == [st1 EXCEPT !.grid[globalY][globalX].revealed = TRUE,
                                        !.revealed = Append(@, CellRecord(globalX, globalY))]
                     s1 == floodNeighbour(st2, globalX, globalY, 1)
                     s2 == floodNeighbour(s1, globalX, globalY, 2)
                     s3 == floodNeighbour(s2, globalX, globalY, 3)
                     s4 == floodNeighbour(s3, globalX, globalY, 4)
                     s5 == floodNeighbour(s4, globalX, globalY, 5)
                     s6 == floodNeighbour(s5, globalX, globalY, 6)
                     s7 == floodNeighbour(s6, globalX, globalY, 7)
                     s8 == floodNeighbour(s7, globalX, globalY, 8)
                 IN <<s1, s2, s3, s4, s5, s6, s7, s8>>[8]

\* flood of revealCell (server.js:200-237).  st = [grid, visited, revealed].
\* s1 .. s8 are the states after each of the eight loop iterations, in loop order.
flood(st, globalX, globalY) ==
    IF <<globalX, globalY>> \in st.visited THEN st
    ELSE LET st1 == [st EXCEPT !.visited = @ \cup {<<globalX, globalY>>}]
             cell == st1.grid[globalY][globalX]
         IN IF cell.revealed \/ cell.flagged THEN st1
            ELSE LET st2 == [st1 EXCEPT !.grid[globalY][globalX].revealed = TRUE,
                                        !.revealed = Append(@, CellRecord(globalX, globalY))]
                 IN IF cell.adjacentMines = 0 /\ ~cell.hasMine
                    THEN LET s1 == floodNeighbour(st2, globalX, globalY, 1)
                             s2 == floodNeighbour(s1, globalX, globalY, 2)
                             s3 == floodNeighbour(s2, globalX, globalY, 3)
                             s4 == floodNeighbour(s3, globalX, globalY, 4)
                             s5 == floodNeighbour(s4, globalX, globalY, 5)
                             s6 == floodNeighbour(s5, globalX, globalY, 6)
                             s7 == floodNeighbour(s6, globalX, globalY, 7)
                             s8 == floodNeighbour(s7, globalX, globalY, 8)
                         IN <<s1, s2, s3, s4, s5, s6, s7, s8>>[8]
                    ELSE st2

\* The early return of revealCell for a cell that is revealed or flagged.
revealRefusedIgnoringFlag(cell) == cell.revealed

\* The same with the revealed test left out.
revealRefusedIgnoringRevealed(cell) == cell.flagged

\* The test of server.js:193: revealCell returns [] for such a cell.
revealRefused(cell) == cell.revealed \/ cell.flagged

\* The single-cell branch without the exploded-mine count.
singleCellRevealUncounted(grid, bombs, cx, cy, x, y) ==
    LET globalX == cx * CHUNK_SIZE + x
        globalY == cy * CHUNK_SIZE + y
    IN [grid |-> [grid EXCEPT ![globalY][globalX].revealed = TRUE],
        bombs |-> bombs,
        ret |-> << [cx |-> cx, cy |-> cy, x |-> x, y |-> y,
                    cell |-> <<globalX, globalY>>] >>]

\* A single-cell branch that removes the mine it explodes.
singleCellRevealDefusing(grid, bombs, cx, cy, x, y) ==
    LET globalX == cx * CHUNK_SIZE + x
        globalY == cy * CHUNK_SIZE + y
    IN [grid |-> [grid EXCEPT ![globalY][globalX].revealed = TRUE,
                              ![globalY][globalX].hasMine = FALSE],
        bombs |-> IF grid[globalY][globalX].hasMine THEN bombs + 1 ELSE bombs,
        ret |-> << [cx |-> cx, cy |-> cy, x |-> x, y |-> y,
                    cell |-> <<globalX, globalY>>] >>]

\* The single-cell branch of revealCell (server.js:239-244): the record carries the
\* request's own chunk and local coordinates.
singleCellReveal(grid, bombs, cx, cy, x, y) ==
    LET globalX == cx * CHUNK_SIZE + x
        globalY == cy * CHUNK_SIZE + y
    IN [grid |-> [grid EXCEPT ![globalY][globalX].revealed = TRUE],
        bombs |-> IF grid[globalY][globalX].hasMine THEN bombs + 1 ELSE bombs,
        ret |-> << [cx |-> cx, cy |-> cy, x |-> x, y |-> y,
                    cell |-> <<globalX, globalY>>] >>]

\* revealCell (server.js:182-247): the grid and counter it leaves and the list it returns.
revealCell(grid, bombs, cx, cy, x, y) ==
    LET globalX == cx * CHUNK_SIZE + x
        globalY == cy * CHUNK_SIZE + y
        unchanged == [grid |-> grid, bombs |-> bombs, ret |-> <<>>]
    IN IF globalX < 0 \/ globalX >= GRID_WIDTH \/ globalY < 0 \/ globalY >= GRID_HEIGHT
       THEN unchanged
       ELSE LET cell == grid[globalY][globalX]
            IN IF revealRefused(cell) THEN unchanged
               ELSE IF cell.adjacentMines = 0 /\ ~cell.hasMine
                    THEN LET st == flood([grid |-> grid, visited |-> {}, revealed |-> <<>>],
                                         globalX, globalY)
                         IN [grid |-> st.grid, bombs |-> bombs, ret |-> st.revealed]
                    ELSE singleCellReveal(grid, bombs, cx, cy, x, y)

\* One iteration of the neighbour loops of the flood of revealCellWithFlood
\* (server.js:363-372).
RECURSIVE floodW(_, _, _)
\* A neighbour step that follows the four orthogonal directions only.
floodWOrthogonalNeighbour(st, x, y, i) ==
    LET nx == x + Offsets[i][1]
        ny == y + Offsets[i][2]
    IN IF /\ Offsets[i][1] = 0 \/ Offsets[i][2] = 0
          /\ InBounds(nx, ny)
          /\ ~st.grid[ny][nx].revealed
          /\ ~st.grid[ny][nx].flagged
          /\ ~st.grid[ny][nx].hasMine
       THEN floodW(st, nx, ny)
       ELSE st

floodWNeighbour(st, x, y, i) ==
    LET nx == x + Offsets[i][1]
        ny == y + Offsets[i][2]
    IN IF /\ InBounds(nx, ny)
          /\ ~st.grid[ny][nx].revealed
          /\ ~st.grid[ny][nx].flagged
          /\ ~st.grid[ny][nx].hasMine
       THEN floodW(st, nx, ny)
       ELSE st

\* flood of revealCellWithFlood that goes on from numbered cells too.
floodWPastNumbers(st, x, y) ==
    IF <<x, y>> \in st.visited THEN st
    ELSE LET st1 == [st EXCEPT !.visited = @ \cup {<<x, y>>}]
             cell == st1.grid[y][x]
         IN IF cell.revealed \/ cell.flagged THEN st1
            ELSE LET st2 == [st1 EXCEPT !.grid[y][x].revealed = TRUE,
                                        !.revealed = Append(@, CellRecord(x, y))]
                     s1 == floodWNeighbour(st2, x, y, 1)
                     s2 == floodWNeighbour(s1, x, y, 2)
                     s3 == floodWNeighbour(s2, x, y, 3)
                     s4 == floodWNeighbour(s3, x, y, 4)
                     s5 == floodWNeighbour(s4, x, y, 5)
                     s6 == floodWNeighbour(s5, x, y, 6)
                     s7 == floodWNeighbour(s6, x, y, 7)
                     s8 == floodWNeighbour(s7, x, y, 8)
                 IN <<s1, s2, s3, s4, s5, s6, s7, s8>>[8]

\* flood of revealCellWithFlood (server.js:339-376).
floodW(st, x, y) ==
    IF <<x, y>> \in st.visited THEN st
    ELSE LET st1 == [st EXCEPT !.visited = @ \cup {<<x, y>>}]
             cell == st1.grid[y][x]
         IN IF cell.revealed \/ cell.flagged THEN st1
            ELSE LET st2 == [st1 EXCEPT !.grid[y][x].revealed = TRUE,
                                        !.revealed = Append(@, CellRecord(x, y))]
                 IN IF cell.adjacentMines = 0 /\ ~cell.hasMine
                    THEN LET s1 == floodWNeighbour(st2, x, y, 1)
                             s2 == floodWNeighbour(s1, x, y, 2)
                             s3 == floodWNeighbour(s2, x, y, 3)
                             s4 == floodWNeighbour(s3, x, y, 4)
                             s5 == floodWNeighbour(s4, x, y, 5)
                             s6 == floodWNeighbour(s5, x, y, 6)
                             s7 == floodWNeighbour(s6, x, y, 7)
                             s8 == floodWNeighbour(s7, x, y, 8)
                         IN <<s1, s2, s3, s4, s5, s6, s7, s8>>[8]
                    ELSE st2

\* revealCellWithFlood without the early return for a revealed or flagged cell.
revealCellWithFloodUnguarded(grid, globalX, globalY) ==
    LET cell == grid[globalY][globalX]
    IN IF cell.adjacentMines = 0 /\ ~cell.hasMine
       THEN LET st == floodW([grid |-> grid, visited |-> {}, revealed |-> <<>>],
                             globalX, globalY)
            IN [grid |-> st.grid, ret |-> st.revealed]
       ELSE [grid |-> [grid EXCEPT ![globalY][globalX].revealed = TRUE],
             ret |-> << CellRecord(globalX, globalY) >>]

\* revealCellWithFlood whose single-cell branch forgets to push its record.
revealCellWithFloodUnrecorded(grid, globalX, globalY) ==
    LET cell == grid[globalY][globalX]
    IN IF cell.revealed \/ cell.flagged THEN [grid |-> grid, ret |-> <<>>]
       ELSE IF cell.adjacentMines = 0 /\ ~cell.hasMine
            THEN LET st == floodW([grid |-> grid, visited |-> {}, revealed |-> <<>>],
                                  globalX, globalY)
                 IN [grid |-> st.grid, ret |-> st.revealed]
            ELSE [grid |-> [grid EXCEPT ![globalY][globalX].revealed = TRUE],
                  ret |-> <<>>]

\* revealCellWithFlood (server.js:330-392): [grid, ret].
revealCellWithFlood(grid, globalX, globalY) ==
    LET cell == grid[globalY][globalX]
    IN IF cell.revealed \/ cell.flagged THEN [grid |-> grid, ret |-> <<>>]
       ELSE IF cell.adjacentMines = 0 /\ ~cell.hasMine
            THEN LET st == floodW([grid |-> grid, visited |-> {}, revealed |-> <<>>],
                                  globalX, globalY)
                 IN [grid |-> st.grid, ret |-> st.revealed]
            ELSE [grid |-> [grid EXCEPT ![globalY][globalX].revealed = TRUE],
                  ret |-> << CellRecord(globalX, globalY) >>]

\* The neighbour scan of handleChordClick (server.js:270-294):
\* sc = [flagCount, revealedMineCount, adjacentCells].
RECURSIVE chordScan(_, _, _, _, _)
chordScan(grid, globalX, globalY, i, sc) ==
    IF i > Len(Offsets) THEN sc
    ELSE LET nx == globalX + Offsets[i][1]
             ny == globalY + Offsets[i][2]
             sc1 == IF ~InBounds(nx, ny) THEN sc
                    ELSE LET neighborCell == grid[ny][nx]
                         IN IF neighborCell.flagged
                            THEN [sc EXCEPT !.flagCount = @ + 1]
                            ELSE IF neighborCell.revealed /\ neighborCell.hasMine
                                 THEN [sc EXCEPT !.revealedMineCount = @ + 1]
                                 ELSE IF ~neighborCell.revealed
                                      THEN [sc EXCEPT !.adjacentCells = Append(@, <<nx, ny>>)]
                                      ELSE sc
         IN chordScan(grid, globalX, globalY, i + 1, sc1)

\* The mine branch that goes on to reveal the mine's own neighbours.
chordMineHitExpanding(st, nx, ny) ==
    LET hit == [grid |-> [st.grid EXCEPT ![ny][nx].revealed = TRUE],
                visited |-> {<<nx, ny>>},
                revealed |-> Append(st.ret, CellRecord(nx, ny))]
        s1 == floodWNeighbour(hit, nx, ny, 1)
        s2 == floodWNeighbour(s1, nx, ny, 2)
        s3 == floodWNeighbour(s2, nx, ny, 3)
        s4 == floodWNeighbour(s3, nx, ny, 4)
        s5 == floodWNeighbour(s4, nx, ny, 5)
        s6 == floodWNeighbour(s5, nx, ny, 6)
        s7 == floodWNeighbour(s6, nx, ny, 7)
        s8 == floodWNeighbour(s7, nx, ny, 8)
        done == <<s1, s2, s3, s4, s5, s6, s7, s8>>[8]
    IN [grid |-> done.grid, bombs |-> st.bombs + 1, ret |-> done.revealed]

\* A mine branch that counts and reports the mine without marking it revealed.
chordMineHitUnmarked(st, nx, ny) ==
    [grid |-> st.grid,
     bombs |-> st.bombs + 1,
     ret |-> Append(st.ret, CellRecord(nx, ny))]

\* A mine branch that reveals and reports the mine without counting it.
chordMineHitUncounted(st, nx, ny) ==
    [grid |-> [st.grid EXCEPT ![ny][nx].revealed = TRUE],
     bombs |-> st.bombs,
     ret |-> Append(st.ret, CellRecord(nx, ny))]

\* The mine branch of the chord's reveal loop (server.js:301-312); st = [grid, bombs, ret].
chordMineHit(st, nx, ny) ==
    [grid |-> [st.grid EXCEPT ![ny][nx].revealed = TRUE],
     bombs |-> st.bombs + 1,
     ret |-> Append(st.ret, CellRecord(nx, ny))]

\* A safe branch that reports its candidate even when revealCellWithFlood found it
\* already revealed and returned nothing.
chordSafeRevealRepushing(st, nx, ny) ==
    LET floodRevealed == revealCellWithFlood(st.grid, nx, ny)
    IN [grid |-> floodRevealed.grid, bombs |-> st.bombs,
        ret |-> st.ret \o (IF floodRevealed.ret = <<>>
                           THEN <<CellRecord(nx, ny)>> ELSE floodRevealed.ret)]

\* The safe branch of the chord's reveal loop (server.js:313-317).
chordSafeReveal(st, nx, ny) ==
    LET floodRevealed == revealCellWithFlood(st.grid, nx, ny)
    IN [grid |-> floodRevealed.grid, bombs |-> st.bombs,
        ret |-> st.ret \o floodRevealed.ret]

\* The reveal loop that returns after its first candidate.
RECURSIVE chordReveal(_, _, _)
chordRevealFirstOnly(st, adjacentCells, i) ==
    IF i > Len(adjacentCells) \/ i > 1 THEN st
    ELSE LET nx == adjacentCells[i][1]
             ny == adjacentCells[i][2]
         IN chordReveal(IF st.grid[ny][nx].hasMine
                        THEN chordMineHit(st, nx, ny)
                        ELSE chordSafeReveal(st, nx, ny),
                        adjacentCells, i + 1)

\* The reveal loop of handleChordClick (server.js:300-318) over adjacentCells.
chordReveal(st, adjacentCells, i) ==
    IF i > Len(adjacentCells) THEN st
    ELSE LET nx == adjacentCells[i][1]
             ny == adjacentCells[i][2]
         IN chordReveal(IF st.grid[ny][nx].hasMine
                        THEN chordMineHit(st, nx, ny)
                        ELSE chordSafeReveal(st, nx, ny),
                        adjacentCells, i + 1)

\* The chord test with "<=" for "===".
chordCountMatchesAtMost(sc, cell) ==
    sc.flagCount + sc.revealedMineCount <= cell.adjacentMines

\* The test of server.js:297.
chordCountMatches(sc, cell) ==
    sc.flagCount + sc.revealedMineCount = cell.adjacentMines

\* handleChordClick (server.js:253-325).
handleChordClick(grid, bombs, cx, cy, x, y) ==
    LET globalX == cx * CHUNK_SIZE + x
        globalY == cy * CHUNK_SIZE + y
        unchanged == [grid |-> grid, bombs |-> bombs, ret |-> <<>>]
    IN IF globalX < 0 \/ globalX >= GRID_WIDTH \/ globalY < 0 \/ globalY >= GRID_HEIGHT
       THEN unchanged
       ELSE LET cell == grid[globalY][globalX]
            IN IF ~cell.revealed \/ cell.adjacentMines = 0 THEN unchanged
               ELSE LET sc == chordScan(grid, globalX, globalY, 1,
                                  [flagCount |-> 0, revealedMineCount |-> 0,
                                   adjacentCells |-> <<>>])
                    IN IF chordCountMatches(sc, cell)
                       THEN chordReveal(unchanged, sc.adjacentCells, 1)
                       ELSE unchanged

\* isValidCellCoords (part_000:59-62), for integer arguments; server.js never calls it.
isValidCellCoords(x, y) == x >= 0 /\ y >= 0 /\ x < CHUNK_SIZE /\ y < CHUNK_SIZE

\* getChunkKey (part_000:39-41): the string `${cx},${cy}`, which for two integers
\* determines the pair and is determined by it.
getChunkKey(cx, cy) == <<cx, cy>>

\* What { ...undefined } evaluates to: an object without fields.
EmptyObject == [f \in {} |-> FALSE]

ChunkIdx == 0 .. (CHUNK_SIZE - 1)

\* A chunk position that holds the grid's own cell object instead of a copy of it.
cellByReference(grid, gridX, gridY) == [ref |-> <<gridX, gridY>>]

\* { ...completeGrid[gridY][gridX] } (server.js:160): a new object that holds the
\* cell's field values of the moment.
copyCell(grid, gridX, gridY) == grid[gridY][gridX]

\* The field values read from a chunk position now: its own, or the grid cell's
\* if the position refers to one.
CellValue(grid, c) == IF DOMAIN c = {"ref"} THEN grid[c.ref[2]][c.ref[1]] ELSE c

\* The field values read from a chunk object now, as socket.emit serialises them
\* (server.js:517).
ChunkValues(grid, chunk) ==
    [y \in DOMAIN chunk |-> [x \in DOMAIN chunk[y] |-> CellValue(grid, chunk[y][x])]]

\* extractChunkFromCompleteGrid (server.js:147-177).  The bounds test has no lower
\* bound: a negative gridY indexes a row that does not exist and the property read
\* on it throws; a negative gridX in an existing row reads undefined and spreads it.
extractChunkFromCompleteGrid(grid, cx, cy) ==
    LET startX == cx * CHUNK_SIZE
        startY == cy * CHUNK_SIZE
        threw == \E y \in ChunkIdx, x \in ChunkIdx :
                    /\ startX + x < GRID_WIDTH
                    /\ startY + y < GRID_HEIGHT
                    /\ startY + y < 0
        chunk == [y \in ChunkIdx |-> [x \in ChunkIdx |->
                    LET gridX == startX + x
                        gridY == startY + y
                    IN IF gridX < GRID_WIDTH /\ gridY < GRID_HEIGHT
                       THEN IF gridY >= 0 /\ gridX >= 0 THEN copyCell(grid, gridX, gridY)
                            ELSE EmptyObject
                       ELSE [x |-> gridX, y |-> gridY, revealed |-> FALSE,
                             hasMine |-> FALSE, adjacentMines |-> 0, flagged |-> FALSE]]]
    IN [threw |-> threw, chunk |-> IF threw THEN EmptyObject ELSE chunk]

\* getOrCreateChunk (server.js:132-142): [threw, cache, chunk].
getOrCreateChunk(cache, grid, cx, cy) ==
    LET key == getChunkKey(cx, cy)
    IN IF key \notin DOMAIN cache
       THEN LET ex == extractChunkFromCompleteGrid(grid, cx, cy)
            IN IF ex.threw
               THEN [threw |-> TRUE, cache |-> cache, chunk |-> EmptyObject]
               ELSE [threw |-> FALSE, cache |-> (key :> ex.chunk) @@ cache,
                     chunk |-> ex.chunk]
       ELSE [threw |-> FALSE, cache |-> cache, chunk |-> cache[key]]

\* A flag_cell handler without the test of line 541: it toggles revealed cells too.
flagCellIgnoringRevealed(grid, cx, cy, x, y) ==
    LET globalX == cx * CHUNK_SIZE + x
        globalY == cy * CHUNK_SIZE + y
    IN IF globalX < 0 \/ globalX >= GRID_WIDTH \/ globalY < 0 \/ globalY >= GRID_HEIGHT
       THEN [grid |-> grid, emits |-> <<>>]
       ELSE [grid |-> [grid EXCEPT ![globalY][globalX].flagged = ~@],
             emits |-> << [cx |-> cx, cy |-> cy, x |-> x, y |-> y,
                           cell |-> <<globalX, globalY>>] >>]

\* A flag_cell handler that sets the flag instead of toggling it.
flagCellSetOnly(grid, cx, cy, x, y) ==
    LET globalX == cx * CHUNK_SIZE + x
        globalY == cy * CHUNK_SIZE + y
    IN IF globalX < 0 \/ globalX >= GRID_WIDTH \/ globalY < 0 \/ globalY >= GRID_HEIGHT
       THEN [grid |-> grid, emits |-> <<>>]
       ELSE IF grid[globalY][globalX].revealed
            THEN [grid |-> grid, emits |-> <<>>]
            ELSE [grid |-> [grid EXCEPT ![globalY][globalX].flagged = TRUE],
                  emits |-> << [cx |-> cx, cy |-> cy, x |-> x, y |-> y,
                                cell |-> <<globalX, globalY>>] >>]

\* The flag_cell handler (server.js:530-544): [grid, emits].
flagCell(grid, cx, cy, x, y) ==
    LET globalX == cx * CHUNK_SIZE + x
        globalY == cy * CHUNK_SIZE + y
    IN IF globalX < 0 \/ globalX >= GRID_WIDTH \/ globalY < 0 \/ globalY >= GRID_HEIGHT
       THEN [grid |-> grid, emits |-> <<>>]
       ELSE IF grid[globalY][globalX].revealed
            THEN [grid |-> grid, emits |-> <<>>]
            ELSE [grid |-> [grid EXCEPT ![globalY][globalX].flagged = ~@],
                  emits |-> << [cx |-> cx, cy |-> cy, x |-> x, y |-> y,
                                cell |-> <<globalX, globalY>>] >>]

\* A reveal loop that toggles revealed on every unflagged cell.
revealAllToggling(grid) ==
    [y \in Ys |-> [x \in Xs |->
        IF ~grid[y][x].flagged
        THEN [grid[y][x] EXCEPT !.revealed = ~@]
        ELSE grid[y][x]]]

\* A reveal loop that does not spare flagged cells.
revealAllFlaggedToo(grid) ==
    [y \in Ys |-> [x \in Xs |-> [grid[y][x] EXCEPT !.revealed = TRUE]]]

\* The first loop of /reveal-all (server.js:470-478).
revealAll(grid) ==
    [y \in Ys |-> [x \in Xs |->
        IF ~grid[y][x].revealed /\ ~grid[y][x].flagged
        THEN [grid[y][x] EXCEPT !.revealed = TRUE]
        ELSE grid[y][x]]]

\* The broadcast loop of /reveal-all (server.js:481-492), rows outermost.
RECURSIVE revealAllEmits(_, _)
revealAllEmits(grid, k) ==
    IF k >= GRID_WIDTH * GRID_HEIGHT THEN <<>>
    ELSE LET x == k % GRID_WIDTH
             y == k \div GRID_WIDTH
         IN (IF grid[y][x].revealed THEN <<CellRecord(x, y)>> ELSE <<>>)
            \o revealAllEmits(grid, k + 1)

NoChunk == EmptyObject

\* The global coordinate a request translates to (server.js:184-185, 255-256, 532-533).
GlobalOf(req) == <<req.cx * CHUNK_SIZE + req.x, req.cy * CHUNK_SIZE + req.y>>

OutOfWorld == <<0 - 1, 0 - 1>>

\* What the observer keeps of a request: the cell it addresses, if any.
TargetOf(req) ==
    IF InBounds(GlobalOf(req)[1], GlobalOf(req)[2]) THEN GlobalOf(req) ELSE OutOfWorld

\* The observer's record of one handler run: the handler, the addressed cell (or
\* chunk), the list the core call returned, the cell_update events broadcast, and
\* for get_chunk the chunk sent or the fact that the handler threw.
Observed(op, target, ret, emits, chunk, threw) ==
    [op |-> op, target |-> target, ret |-> ret, emits |-> emits,
     chunk |-> chunk, threw |-> threw]

\* A handler runs while the process is alive; an exception thrown out of a socket
\* handler is uncaught and ends the process.
Running == ~last.threw /\ nops < MaxOps

\* The event loop is between two handlers: nothing is on the stack.
Idle == [op |-> "none"]

\* No random outcome is drawn ahead of its use.
NoRandom == EmptyObject

Init ==
    /\ MINE_PERCENTAGE \in MinePercentages
    /\ completeGrid \in InitialGrids[MINE_PERCENTAGE]
    /\ gridChunks = [k \in {} |-> EmptyObject]
    /\ uniqueUsersEver = 0
    /\ bombsExploded = 0
    /\ last = Observed("init", OutOfWorld, <<>>, <<>>, NoChunk, FALSE)
    /\ nops = 0
    /\ call = Idle
    /\ random = NoRandom

\* socket.on('user_connect') (server.js:510-512)
UserConnectWith(firstTime) ==
    /\ Running
    /\ uniqueUsersEver' = IF firstTime THEN uniqueUsersEver + 1 ELSE uniqueUsersEver
    /\ last' = Observed("user_connect", OutOfWorld, <<>>, <<>>, NoChunk, FALSE)
    /\ nops' = nops + 1
    /\ UNCHANGED <<completeGrid, gridChunks, bombsExploded, MINE_PERCENTAGE, call, random>>

UserConnect == \E firstTime \in BOOLEAN : UserConnectWith(firstTime)

\* socket.on('get_chunk') (server.js:515-518)
GetChunkAt(cx, cy) ==
    /\ Running
    /\ LET r == getOrCreateChunk(gridChunks, completeGrid, cx, cy)
       IN /\ gridChunks' = r.cache
          /\ last' = Observed("get_chunk", <<cx, cy>>, <<>>, <<>>,
                              ChunkValues(completeGrid, r.chunk), r.threw)
    /\ nops' = nops + 1
    /\ UNCHANGED <<completeGrid, uniqueUsersEver, bombsExploded, MINE_PERCENTAGE, call, random>>

GetChunk == \E cx \in ChunkCx, cy \in ChunkCy : GetChunkAt(cx, cy)

\* socket.on('reveal_cell') (server.js:521-527): one cell_update per returned record.
RevealCellReq(req) ==
    /\ Running
    /\ LET r == revealCell(completeGrid, bombsExploded, req.cx, req.cy, req.x, req.y)
       IN /\ completeGrid' = r.grid
          /\ bombsExploded' = r.bombs
          /\ last' = Observed("reveal_cell", TargetOf(req), r.ret, r.ret, NoChunk, FALSE)
    /\ nops' = nops + 1
    /\ UNCHANGED <<gridChunks, uniqueUsersEver, MINE_PERCENTAGE, call, random>>

RevealCell == \E req \in Requests : RevealCellReq(req)

\* socket.on('flag_cell') (server.js:530-544)
FlagCellReq(req) ==
    /\ Running
    /\ LET r == flagCell(completeGrid, req.cx, req.cy, req.x, req.y)
       IN /\ completeGrid' = r.grid
          /\ last' = Observed("flag_cell", TargetOf(req), <<>>, r.emits, NoChunk, FALSE)
    /\ nops' = nops + 1
    /\ UNCHANGED <<gridChunks, uniqueUsersEver, bombsExploded, MINE_PERCENTAGE, call, random>>

FlagCell == \E req \in Requests : FlagCellReq(req)

\* socket.on('chord_click') (server.js:547-553)
ChordClickReq(req) ==
    /\ Running
    /\ LET r == handleChordClick(completeGrid, bombsExploded, req.cx, req.cy, req.x, req.y)
       IN /\ completeGrid' = r.grid
          /\ bombsExploded' = r.bombs
          /\ last' = Observed("chord_click", TargetOf(req), r.ret, r.ret, NoChunk, FALSE)
    /\ nops' = nops + 1
    /\ UNCHANGED <<gridChunks, uniqueUsersEver, MINE_PERCENTAGE, call, random>>

ChordClick == \E req \in Requests : ChordClickReq(req)

\* A reset that rebuilds the grid without clearing the chunk cache.
ResetKeepingCache ==
    /\ Running
    /\ completeGrid' \in InitialGrids[MINE_PERCENTAGE]
    /\ last' = Observed("reset", OutOfWorld, <<>>, <<>>, NoChunk, FALSE)
    /\ nops' = nops + 1
    /\ UNCHANGED <<gridChunks, uniqueUsersEver, bombsExploded, MINE_PERCENTAGE, call, random>>

\* A reset that also starts both counters again from zero.
ResetClearingCounters ==
    /\ Running
    /\ gridChunks' = [k \in {} |-> EmptyObject]
    /\ completeGrid' \in InitialGrids[MINE_PERCENTAGE]
    /\ uniqueUsersEver' = 0
    /\ bombsExploded' = 0
    /\ last' = Observed("reset", OutOfWorld, <<>>, <<>>, NoChunk, FALSE)
    /\ nops' = nops + 1
    /\ UNCHANGED <<MINE_PERCENTAGE, call, random>>

\* POST /reset-chunks (server.js:447-452)
ResetChunks ==
    /\ Running
    /\ gridChunks' = [k \in {} |-> EmptyObject]
    /\ completeGrid' \in InitialGrids[MINE_PERCENTAGE]
    /\ last' = Observed("reset", OutOfWorld, <<>>, <<>>, NoChunk, FALSE)
    /\ nops' = nops + 1
    /\ UNCHANGED <<uniqueUsersEver, bombsExploded, MINE_PERCENTAGE, call, random>>

\* GET /reveal-all (server.js:459-504); refused when NODE_ENV is 'production'.
RevealAllIn(production) ==
    /\ Running
    /\ LET g == IF production THEN completeGrid ELSE revealAll(completeGrid)
       IN /\ completeGrid' = g
          /\ last' = Observed("reveal_all", OutOfWorld, <<>>,
                              IF production THEN <<>> ELSE revealAllEmits(g, 0),
                              NoChunk, FALSE)
    /\ nops' = nops + 1
    /\ UNCHANGED <<gridChunks, uniqueUsersEver, bombsExploded, MINE_PERCENTAGE, call, random>>

RevealAll == \E production \in BOOLEAN : RevealAllIn(production)

\* The handlers that write the grid or the exploded-mine counter.
Next ==
    \/ RevealCell
    \/ FlagCell
    \/ ChordClick
    \/ ResetChunks
    \/ RevealAll

Spec == Init /\ [][Next]_vars

\* Every handler, explored over shorter runs.
NextServer ==
    /\ nops < MaxServerOps
    /\ \/ UserConnect
       \/ GetChunk
       \/ RevealCell
       \/ FlagCell
       \/ ChordClick
       \/ ResetChunks
       \/ RevealAll

SpecServer == Init /\ [][NextServer]_vars

\* The client socket events that read or write cells: chunk requests interleaved
\* with reveal, flag and chord requests.
NextChunks ==
    \/ GetChunk
    \/ RevealCell
    \/ FlagCell
    \/ ChordClick

SpecChunks == Init /\ [][NextChunks]_vars

\* A world in play: a fresh grid on which clients have flagged at most one cell
\* (every such grid is what one flag_cell request leaves).
InitFlagged ==
    /\ MINE_PERCENTAGE \in MinePercentages
    /\ \E g \in InitialGrids[MINE_PERCENTAGE] :
          completeGrid \in {g} \cup { flagCell(g, req.cx, req.cy, req.x, req.y).grid :
                                         req \in Requests }
    /\ gridChunks = [k \in {} |-> EmptyObject]
    /\ uniqueUsersEver = 0
    /\ bombsExploded = 0
    /\ last = Observed("init", OutOfWorld, <<>>, <<>>, NoChunk, FALSE)
    /\ nops = 0
    /\ call = Idle
    /\ random = NoRandom

\* Reveal, flag and chord requests on a world in play.
NextPlay ==
    \/ RevealCell
    \/ FlagCell
    \/ ChordClick

SpecPlay == InitFlagged /\ [][NextPlay]_vars

\* ---- The handlers statement by statement ----
\* Each socket or HTTP callback of server.js is a synchronous function: it
\* contains no await, timer or promise, so Node's event loop calls the next
\* callback only when the stack is empty (server.js:447-452, 507-558).

\* A dispatch that does not wait for the running callback to return.
CanDispatchAnytime == TRUE

\* The event loop takes the next request when no callback is on the stack.
CanDispatch == call = Idle

\* The call put on the stack for a reveal or chord request: the list the core call
\* is going to return, the grid and counter as found, and as the core function
\* leaves them; written counts the grid writes made, emitted holds the events sent.
CallOf(op, target, r) ==
    [op |-> op, target |-> target, ret |-> r.ret, pre |-> completeGrid,
     grid |-> r.grid, bombs |-> r.bombs, written |-> 0, emitted |-> <<>>]

\* The statements of POST /reset-chunks that write state: gridChunks.clear(),
\* the construction of the empty grid, placeMinesInCompleteGrid and
\* calculateAdjacentCountsForCompleteGrid (server.js:448, 46-60, 63, 66).
ResetWrites == 4

\* The number of write steps the running call makes.
WritesOf(c) == IF c.op = "reset" THEN ResetWrites ELSE Len(c.ret)

\* The grid between placeMinesInCompleteGrid and calculateAdjacentCounts: grid's
\* mines, every count still 0.
minesOnly(grid) ==
    [y \in Ys |-> [x \in Xs |-> [EmptyGrid[y][x] EXCEPT !.hasMine = grid[y][x].hasMine]]]

\* The payload of one cell_update event (server.js:525, 551).
cellUpdate(r) == [cx |-> r.cx, cy |-> r.cy, x |-> r.x, y |-> r.y, cell |-> r.cell]

\* A broadcast loop that walks the returned list from its end.
nextToEmitBackwards(c) == c.ret[Len(c.ret) - Len(c.emitted)]

\* The record "for (const r of revealed)" visits next (server.js:524, 550).
nextToEmit(c) == c.ret[Len(c.emitted) + 1]

\* socket.on('get_chunk') called by the event loop (server.js:515-518).
LoopGetChunk == CanDispatch /\ GetChunk

\* socket.on('flag_cell') called by the event loop (server.js:530-544): one write.
LoopFlagCell == CanDispatch /\ FlagCell

\* socket.on('reveal_cell') is called (server.js:521-522).
LoopStartReveal ==
    /\ CanDispatch
    /\ Running
    /\ \E req \in Requests :
          call' = CallOf("reveal_cell", TargetOf(req),
                         revealCell(completeGrid, bombsExploded, req.cx, req.cy, req.x, req.y))
    /\ UNCHANGED <<completeGrid, gridChunks, uniqueUsersEver, bombsExploded,
                   MINE_PERCENTAGE, last, nops, random>>

\* socket.on('chord_click') is called (server.js:547-548).
LoopStartChord ==
    /\ CanDispatch
    /\ Running
    /\ \E req \in Requests :
          call' = CallOf("chord_click", TargetOf(req),
                         handleChordClick(completeGrid, bombsExploded, req.cx, req.cy, req.x, req.y))
    /\ UNCHANGED <<completeGrid, gridChunks, uniqueUsersEver, bombsExploded,
                   MINE_PERCENTAGE, last, nops, random>>

\* POST /reset-chunks is called (server.js:447); grid is the grid the random
\* placement is going to build.
LoopStartReset ==
    /\ CanDispatch
    /\ Running
    /\ \E g \in InitialGrids[MINE_PERCENTAGE] :
          call' = CallOf("reset", OutOfWorld, [ret |-> <<>>, grid |-> g, bombs |-> bombsExploded])
    /\ UNCHANGED <<completeGrid, gridChunks, uniqueUsersEver, bombsExploded,
                   MINE_PERCENTAGE, last, nops, random>>

\* The next grid write of the running reveal or chord: cell.revealed = true, with
\* bombsExploded++ before it when the cell holds a mine (server.js:208, 241-242,
\* 303-304, 346).
LoopWriteCell ==
    /\ call.op \in {"reveal_cell", "chord_click"}
    /\ call.written < WritesOf(call)
    /\ LET c == call.ret[call.written + 1].cell
       IN /\ completeGrid' = [completeGrid EXCEPT ![c[2]][c[1]].revealed = TRUE]
          /\ bombsExploded' = IF completeGrid[c[2]][c[1]].hasMine
                              THEN bombsExploded + 1 ELSE bombsExploded
    /\ call' = [call EXCEPT !.written = @ + 1]
    /\ UNCHANGED <<gridChunks, uniqueUsersEver, MINE_PERCENTAGE, last, nops, random>>

\* The next writing statement of the running reset (server.js:448, 46-60, 63, 66).
LoopWriteReset ==
    /\ call.op = "reset"
    /\ call.written < WritesOf(call)
    /\ gridChunks' = IF call.written = 0 THEN [k \in {} |-> EmptyObject] ELSE gridChunks
    /\ completeGrid' = CASE call.written = 0 -> completeGrid
                         [] call.written = 1 -> EmptyGrid
                         [] call.written = 2 -> minesOnly(call.grid)
                         [] OTHER -> call.grid
    /\ call' = [call EXCEPT !.written = @ + 1]
    /\ UNCHANGED <<uniqueUsersEver, bombsExploded, MINE_PERCENTAGE, last, nops, random>>

\* One io.emit of the broadcast loop, reached when the core call has returned
\* (server.js:524-526, 550-552).
LoopEmit ==
    /\ call.op \in {"reveal_cell", "chord_click"}
    /\ call.written = WritesOf(call)
    /\ Len(call.emitted) < Len(call.ret)
    /\ call' = [call EXCEPT !.emitted = Append(@, cellUpdate(nextToEmit(call)))]
    /\ UNCHANGED <<completeGrid, gridChunks, uniqueUsersEver, bombsExploded,
                   MINE_PERCENTAGE, last, nops, random>>

\* The running callback returns to the event loop (server.js:451, 527, 553).
LoopReturn ==
    /\ call.op \in {"reveal_cell", "chord_click", "reset"}
    /\ call.written = WritesOf(call)
    /\ Len(call.emitted) = Len(call.ret)
    /\ last' = Observed(call.op, call.target, call.ret, call.emitted, NoChunk, FALSE)
    /\ nops' = nops + 1
    /\ call' = Idle
    /\ UNCHANGED <<completeGrid, gridChunks, uniqueUsersEver, bombsExploded,
                   MINE_PERCENTAGE, random>>

\* The event loop serving chunk, reveal, flag, chord and reset requests.
NextLoop ==
    /\ nops < MaxServerOps
    /\ \/ LoopGetChunk
       \/ LoopFlagCell
       \/ LoopStartReveal
       \/ LoopStartChord
       \/ LoopStartReset
       \/ LoopWriteCell
       \/ LoopWriteReset
       \/ LoopEmit
       \/ LoopReturn

SpecLoop == Init /\ [][NextLoop]_vars

\* ---- Start-up: initializeCompleteGrid() statement by statement ----
\* The constants module is what a deployment edits; start-up is explored for
\* every configuration below, the shipped kind (positive sides, density in
\* [0,1)) and the others.

\* GRID_WIDTH and GRID_HEIGHT a deployment may configure.
BootSides == (0 - 1) .. 2

\* MINE_PERCENTAGE a deployment may configure, in hundredths.
BootPercentages == {0 - 50, 0, 17, 50, 100, 150}

\* The values Math.floor(Math.random() * n) can take (server.js:82-83).
RandomBelow(n) == IF n > 0 THEN 0 .. (n - 1) ELSE n .. 0

\* The grid built by the two loops of initializeCompleteGrid for the configured
\* sides (server.js:46-60); no row, or empty rows, when a side is not positive.
bootGrid(width, height) ==
    [y \in 0 .. (height - 1) |-> [x \in 0 .. (width - 1) |->
        [x |-> x, y |-> y, revealed |-> FALSE, hasMine |-> FALSE,
         adjacentMines |-> 0, flagged |-> FALSE]]]

\* countAdjacentMinesInCompleteGrid for the configured sides (server.js:111-127).
bootCountAdjacent(grid, width, height, x, y) ==
    Cardinality({ i \in DOMAIN Offsets :
        LET nx == x + Offsets[i][1]
            ny == y + Offsets[i][2]
        IN /\ nx >= 0 /\ nx < width /\ ny >= 0 /\ ny < height
           /\ grid[ny][nx].hasMine })

\* calculateAdjacentCountsForCompleteGrid for the configured sides (server.js:96-106).
bootCounts(grid, width, height) ==
    [y \in 0 .. (height - 1) |-> [x \in 0 .. (width - 1) |->
        [grid[y][x] EXCEPT !.adjacentMines = bootCountAdjacent(grid, width, height, x, y)]]]

\* The process at "let completeGrid = null", about to run line 561.
InitBoot ==
    /\ MINE_PERCENTAGE \in BootPercentages
    /\ \E width \in BootSides, height \in BootSides :
          call = [op |-> "initializeCompleteGrid", pc |-> "build", width |-> width,
                  height |-> height, mineCount |-> 0, placed |-> 0]
    /\ completeGrid = <<>>
    /\ gridChunks = [k \in {} |-> EmptyObject]
    /\ uniqueUsersEver = 0
    /\ bombsExploded = 0
    /\ last = Observed("init", OutOfWorld, <<>>, <<>>, NoChunk, FALSE)
    /\ nops = 0
    /\ random = NoRandom

\* The grid is allocated and placeMinesInCompleteGrid computes its target
\* (server.js:46-60, 75-77).
BootBuild ==
    /\ call.op = "initializeCompleteGrid"
    /\ call.pc = "build"
    /\ completeGrid' = bootGrid(call.width, call.height)
    /\ call' = [call EXCEPT !.pc = "place",
                            !.mineCount = RoundMineCount(call.width * call.height, MINE_PERCENTAGE),
                            !.placed = 0]
    /\ UNCHANGED <<gridChunks, uniqueUsersEver, bombsExploded, MINE_PERCENTAGE,
                   last, nops, random>>

\* An iteration that counts the pick whether or not the cell was free.
BootPlaceAtCountingRejected(x, y) ==
    /\ call.op = "initializeCompleteGrid"
    /\ call.pc = "place"
    /\ call.placed < call.mineCount
    /\ x \in RandomBelow(call.width)
    /\ y \in RandomBelow(call.height)
    /\ y \in DOMAIN completeGrid
    /\ x \in DOMAIN completeGrid[y]
    /\ completeGrid' = [completeGrid EXCEPT ![y][x].hasMine = TRUE]
    /\ call' = [call EXCEPT !.placed = @ + 1]
    /\ UNCHANGED <<gridChunks, uniqueUsersEver, bombsExploded, MINE_PERCENTAGE,
                   last, nops, random>>

\* One iteration of the while loop with the pick (x, y) (server.js:81-88): reading
\* hasMine of a cell that does not exist throws and ends start-up; a free cell
\* gets the mine; a pick on a mine changes nothing.
BootPlaceAt(x, y) ==
    /\ call.op = "initializeCompleteGrid"
    /\ call.pc = "place"
    /\ call.placed < call.mineCount
    /\ x \in RandomBelow(call.width)
    /\ y \in RandomBelow(call.height)
    /\ IF ~(y \in DOMAIN completeGrid /\ x \in DOMAIN completeGrid[y])
       THEN /\ call' = [call EXCEPT !.pc = "threw"]
            /\ UNCHANGED completeGrid
       ELSE IF ~completeGrid[y][x].hasMine
       THEN /\ completeGrid' = [completeGrid EXCEPT ![y][x].hasMine = TRUE]
            /\ call' = [call EXCEPT !.placed = @ + 1]
       ELSE UNCHANGED <<completeGrid, call>>
    /\ UNCHANGED <<gridChunks, uniqueUsersEver, bombsExploded, MINE_PERCENTAGE,
                   last, nops, random>>

BootPlace == \E x \in BootSides, y \in BootSides : BootPlaceAt(x, y)

\* The loop is left, the counts are computed and the server starts listening
\* (server.js:81, 66, 563).
BootCount ==
    /\ call.op = "initializeCompleteGrid"
    /\ call.pc = "place"
    /\ ~(call.placed < call.mineCount)
    /\ completeGrid' = bootCounts(completeGrid, call.width, call.height)
    /\ call' = [call EXCEPT !.pc = "ready"]
    /\ UNCHANGED <<gridChunks, uniqueUsersEver, bombsExploded, MINE_PERCENTAGE,
                   last, nops, random>>

NextBoot ==
    \/ BootBuild
    \/ BootPlace
    \/ BootCount

SpecBoot == InitBoot /\ [][NextBoot]_vars

\* Start-up with a random generator that does not avoid a coordinate for ever:
\* an iteration that can change the grid eventually happens.
SpecBootFair ==
    /\ InitBoot
    /\ [][NextBoot]_vars
    /\ WF_vars(BootBuild)
    /\ WF_vars(BootPlace)
    /\ WF_vars(BootCount)

\* ---- The lazily-chunked variant (src/unnamed/part_002) ----
\* No complete grid: gridChunks holds the only cells, a chunk's mines are placed
\* when the chunk is first asked for (part_002:104-113).

\* MINE_PERCENTAGE of the variant, in hundredths (part_002:78: 0.18), and a world
\* without mines, in which a reveal floods from chunk to chunk.
LazyPercentages == {0, 18}

\* Chunk coordinates of the requests explored: the chunks of the world.
LazyCx == 0 .. ((GRID_WIDTH - 1) \div CHUNK_SIZE)

LazyCy == 0 .. ((GRID_HEIGHT - 1) \div CHUNK_SIZE)

LazyKeys == LazyCx \X LazyCy

LazyRequests == [cx : LazyCx, cy : LazyCy, x : LocalCoords, y : LocalCoords]

\* The mine layouts the loop of placeMinesInChunk can end with (part_002:115-127):
\* round(CHUNK_SIZE^2 * MINE_PERCENTAGE) distinct local coordinates <<x, y>>.
LazyLayouts(pct) ==
    { m \in SUBSET (ChunkIdx \X ChunkIdx) :
         Cardinality(m) = RoundMineCount(CHUNK_SIZE * CHUNK_SIZE, pct) }

\* createEmptyChunk (part_002:81-98): the cells carry their global coordinates.
lazyCreateEmptyChunk(cx, cy) ==
    [y \in ChunkIdx |-> [x \in ChunkIdx |->
        [x |-> cx * CHUNK_SIZE + x, y |-> cy * CHUNK_SIZE + y, revealed |-> FALSE,
         hasMine |-> FALSE, adjacentMines |-> 0, flagged |-> FALSE]]]

\* placeMinesInChunk (part_002:115-127) ending with the layout mines.
lazyPlaceMinesInChunk(chunk, mines) ==
    [y \in ChunkIdx |-> [x \in ChunkIdx |->
        [chunk[y][x] EXCEPT !.hasMine = (<<x, y>> \in mines)]]]

\* countAdjacentMines (part_002:137-160): a neighbour inside the chunk is read from
\* the chunk under construction; one outside it is read from gridChunks when its
\* chunk is already there, and counts for nothing otherwise.
lazyCountAdjacentMines(chunks, chunk, x, y, cx, cy) ==
    Cardinality({ i \in DOMAIN Offsets :
        LET nx == x + Offsets[i][1]
            ny == y + Offsets[i][2]
            n_key == <<cx + FloorDiv(nx, CHUNK_SIZE), cy + FloorDiv(ny, CHUNK_SIZE)>>
            n_x == (nx + CHUNK_SIZE) % CHUNK_SIZE
            n_y == (ny + CHUNK_SIZE) % CHUNK_SIZE
        IN IF nx >= 0 /\ nx < CHUNK_SIZE /\ ny >= 0 /\ ny < CHUNK_SIZE
           THEN chunk[ny][nx].hasMine
           ELSE /\ n_key \in DOMAIN chunks
                /\ chunks[n_key][n_y][n_x].hasMine })

\* fillAdjacentCounts (part_002:129-135).
lazyFillAdjacentCounts(chunks, chunk, cx, cy) ==
    [y \in ChunkIdx |-> [x \in ChunkIdx |->
        [chunk[y][x] EXCEPT !.adjacentMines =
            lazyCountAdjacentMines(chunks, chunk, x, y, cx, cy)]]]

\* getOrCreateChunk (part_002:104-113): gridChunks after the call; tape holds the
\* layout the random placement gives each chunk.
lazyGetOrCreateChunk(chunks, tape, cx, cy) ==
    IF <<cx, cy>> \in DOMAIN chunks THEN chunks
    ELSE LET chunk == lazyPlaceMinesInChunk(lazyCreateEmptyChunk(cx, cy), tape[<<cx, cy>>])
             filled == lazyFillAdjacentCounts(chunks, chunk, cx, cy)
         IN [k \in (DOMAIN chunks) \cup {<<cx, cy>>} |->
                IF k = <<cx, cy>> THEN filled ELSE chunks[k]]

\* The record pushed for a revealed cell (part_002:180, 209); cell is the
\* reference to the cell, held here as its global position.
lazyRecord(cx, cy, x, y) ==
    [cx |-> cx, cy |-> cy, x |-> x, y |-> y,
     cell |-> <<cx * CHUNK_SIZE + x, cy * CHUNK_SIZE + y>>]

\* The chunk coordinate and the local coordinate after the four adjustments of
\* part_002:189-192, for a chunk coordinate c and a raw local coordinate r.
lazyWrapChunk(c, r) == c + (IF r < 0 THEN 0 - 1 ELSE IF r >= CHUNK_SIZE THEN 1 ELSE 0)

lazyWrapLocal(r) ==
    IF r < 0 THEN r + CHUNK_SIZE ELSE IF r >= CHUNK_SIZE THEN r - CHUNK_SIZE ELSE r

\* The test of part_002:197 on the neighbour cell.
lazyFree(n_cell) == ~n_cell.revealed /\ ~n_cell.flagged /\ ~n_cell.hasMine

\* part_002:193-200 for the neighbour (nx, ny) of chunk (n_cx, n_cy): skipped when
\* the chunk lies outside the world; otherwise the chunk is created if need be
\* and the recursive call is made for an unrevealed, unflagged, mine-free cell.
\* made is the state after getOrCreateChunk, bound once.
RECURSIVE lazyFlood(_, _, _, _, _, _)
lazyVisit(st, tape, n_cx, n_cy, nx, ny) ==
    IF n_cx < 0 \/ n_cy < 0 \/ n_cx * CHUNK_SIZE >= GRID_WIDTH
       \/ n_cy * CHUNK_SIZE >= GRID_HEIGHT
    THEN st
    ELSE CHOOSE after \in
            { IF lazyFree(made.chunks[<<n_cx, n_cy>>][ny][nx])
              THEN lazyFlood(made, tape, n_cx, n_cy, nx, ny)
              ELSE made :
                 made \in {[st EXCEPT !.chunks = lazyGetOrCreateChunk(@, tape, n_cx, n_cy)]} } :
            TRUE

\* One iteration of the neighbour loops of flood (part_002:182-201) for the i-th
\* (dx,dy).
lazyFloodNeighbour(st, tape, cx, cy, x, y, i) ==
    lazyVisit(st, tape,
              lazyWrapChunk(cx, x + Offsets[i][1]), lazyWrapChunk(cy, y + Offsets[i][2]),
              lazyWrapLocal(x + Offsets[i][1]), lazyWrapLocal(y + Offsets[i][2]))

\* flood (part_002:172-204).  st = [chunks, visited, ret].
lazyFlood(st, tape, cx, cy, x, y) ==
    IF <<cx, cy, x, y>> \in st.visited THEN st
    ELSE LET seen == [st EXCEPT !.visited = @ \cup {<<cx, cy, x, y>>},
                                !.chunks = lazyGetOrCreateChunk(@, tape, cx, cy)]
             cell == seen.chunks[<<cx, cy>>][y][x]
         IN IF cell.revealed \/ cell.flagged THEN seen
            ELSE LET s0 == [seen EXCEPT !.chunks[<<cx, cy>>][y][x].revealed = TRUE,
                                        !.ret = Append(@, lazyRecord(cx, cy, x, y))]
                 IN IF cell.adjacentMines = 0 /\ ~cell.hasMine
                    THEN LET s1 == lazyFloodNeighbour(s0, tape, cx, cy, x, y, 1)
                             s2 == lazyFloodNeighbour(s1, tape, cx, cy, x, y, 2)
                             s3 == lazyFloodNeighbour(s2, tape, cx, cy, x, y, 3)
                             s4 == lazyFloodNeighbour(s3, tape, cx, cy, x, y, 4)
                             s5 == lazyFloodNeighbour(s4, tape, cx, cy, x, y, 5)
                             s6 == lazyFloodNeighbour(s5, tape, cx, cy, x, y, 6)
                             s7 == lazyFloodNeighbour(s6, tape, cx, cy, x, y, 7)
                             s8 == lazyFloodNeighbour(s7, tape, cx, cy, x, y, 8)
                         IN <<s1, s2, s3, s4, s5, s6, s7, s8>>[8]
                    ELSE s0

\* revealCell (part_002:165-212): the chunk is created first; a local coordinate
\* outside the chunk reads a cell that does not exist and throws.
lazyRevealCell(chunks, tape, bombs, cx, cy, x, y) ==
    LET made == lazyGetOrCreateChunk(chunks, tape, cx, cy)
    IN IF ~(x \in ChunkIdx /\ y \in ChunkIdx)
       THEN [chunks |-> made, bombs |-> bombs, ret |-> <<>>, threw |-> TRUE]
       ELSE LET cell == made[<<cx, cy>>][y][x]
            IN IF cell.revealed \/ cell.flagged
               THEN [chunks |-> made, bombs |-> bombs, ret |-> <<>>, threw |-> FALSE]
               ELSE IF cell.adjacentMines = 0 /\ ~cell.hasMine
               THEN LET st == lazyFlood([chunks |-> made, visited |-> {}, ret |-> <<>>],
                                        tape, cx, cy, x, y)
                    IN [chunks |-> st.chunks, bombs |-> bombs, ret |-> st.ret,
                        threw |-> FALSE]
               ELSE [chunks |-> [made EXCEPT ![<<cx, cy>>][y][x].revealed = TRUE],
                     bombs |-> IF cell.hasMine THEN bombs + 1 ELSE bombs,
                     ret |-> <<lazyRecord(cx, cy, x, y)>>, threw |-> FALSE]

\* The variant's process after start-up: no chunk yet; random holds, for each
\* chunk, the layout Math.random() is going to give it.
InitLazy ==
    /\ MINE_PERCENTAGE \in LazyPercentages
    /\ random \in [LazyKeys -> LazyLayouts(MINE_PERCENTAGE)]
    /\ gridChunks = [k \in {} |-> EmptyObject]
    /\ completeGrid = <<>>
    /\ uniqueUsersEver = 0
    /\ bombsExploded = 0
    /\ last = Observed("init", OutOfWorld, <<>>, <<>>, NoChunk, FALSE)
    /\ nops = 0
    /\ call = Idle

\* socket.on('get_chunk') (part_002:223-226)
LazyGetChunk ==
    /\ Running
    /\ \E cx \in LazyCx, cy \in LazyCy :
          /\ gridChunks' = lazyGetOrCreateChunk(gridChunks, random, cx, cy)
          /\ last' = Observed("get_chunk", <<cx, cy>>, <<>>, <<>>, NoChunk, FALSE)
    /\ nops' = nops + 1
    /\ UNCHANGED <<completeGrid, uniqueUsersEver, bombsExploded, MINE_PERCENTAGE,
                   call, random>>

\* socket.on('reveal_cell') (part_002:229-235)
LazyRevealCell ==
    /\ Running
    /\ \E req \in LazyRequests :
          LET r == lazyRevealCell(gridChunks, random, bombsExploded,
                                  req.cx, req.cy, req.x, req.y)
          IN /\ gridChunks' = r.chunks
             /\ bombsExploded' = r.bombs
             /\ last' = Observed("reveal_cell", GlobalOf(req), r.ret, r.ret, NoChunk, r.threw)
    /\ nops' = nops + 1
    /\ UNCHANGED <<completeGrid, uniqueUsersEver, MINE_PERCENTAGE, call, random>>

\* socket.on('flag_cell') (part_002:238-244): the chunk is created first; a local
\* coordinate outside the chunk throws; a revealed cell is left alone.
LazyFlagCell ==
    /\ Running
    /\ \E req \in LazyRequests :
          LET made == lazyGetOrCreateChunk(gridChunks, random, req.cx, req.cy)
              inChunk == req.x \in ChunkIdx /\ req.y \in ChunkIdx
              toggles == inChunk /\ ~made[<<req.cx, req.cy>>][req.y][req.x].revealed
          IN /\ gridChunks' = IF toggles
                              THEN [made EXCEPT ![<<req.cx, req.cy>>][req.y][req.x].flagged = ~@]
                              ELSE made
             /\ last' = Observed("flag_cell", GlobalOf(req), <<>>,
                                 IF toggles
                                 THEN <<lazyRecord(req.cx, req.cy, req.x, req.y)>> ELSE <<>>,
                                 NoChunk, ~inChunk)
    /\ nops' = nops + 1
    /\ UNCHANGED <<completeGrid, uniqueUsersEver, bombsExploded, MINE_PERCENTAGE,
                   call, random>>

NextLazy ==
    \/ LazyGetChunk
    \/ LazyRevealCell
    \/ LazyFlagCell

SpecLazy == InitLazy /\ [][NextLazy]_vars

(***************************************************************************)
(* Vocabulary of the properties.                                           *)
(***************************************************************************)
Cells == Xs \X Ys

Cell(grid, c) == grid[c[2]][c[1]]

Neighbours(c) ==
    { d \in Cells : d # c /\ d[1] - c[1] \in (0 - 1) .. 1 /\ d[2] - c[2] \in (0 - 1) .. 1 }

MineCells(grid) == { c \in Cells : Cell(grid, c).hasMine }

RevealedCells(grid) == { c \in Cells : Cell(grid, c).revealed }

FlaggedCells(grid) == { c \in Cells : Cell(grid, c).flagged }

\* The cells a returned list refers to.
RetCells(ret) == { ret[i].cell : i \in DOMAIN ret }

InWorld(t) == t # OutOfWorld

\* C1: in every reachable state every cell's adjacentMines is the number of its
\* in-bounds 8-neighbours that have a mine.
C1_AdjacencyCounts ==
    \A c \in Cells :
        Cell(completeGrid, c).adjacentMines
            = Cardinality({ d \in Neighbours(c) : Cell(completeGrid, d).hasMine })

\* A chord that revealed cells has just run on a world with mines.
C1_Witness ==
    /\ last.op = "chord_click"
    /\ last.ret # <<>>
    /\ MineCells(completeGrid) # {}

\* The integer Math.round yields for v = cells * pct / 100: v - 1/2 < n <= v + 1/2.
IsRounded(n, cells, pct) ==
    /\ 200 * n - 2 * cells * pct > 0 - 100
    /\ 200 * n - 2 * cells * pct <= 100

\* C2: after initialization and after every reset, and in every state reached
\* from there, the number of mine cells is round(GRID_WIDTH * GRID_HEIGHT *
\* MINE_PERCENTAGE).
C2_MineCount ==
    IsRounded(Cardinality(MineCells(completeGrid)), GRID_WIDTH * GRID_HEIGHT, MINE_PERCENTAGE)

\* A reset has just run on a world in which a mine had been exploded.
C2_Witness ==
    /\ last.op = "reset"
    /\ bombsExploded > 0
    /\ Cardinality(MineCells(completeGrid)) = 1

ZeroCells(grid) == { c \in Cells : Cell(grid, c).adjacentMines = 0 }

\* The 8-connected component of zero-adjacency cells that contains S.
RECURSIVE ZeroComponent(_, _)
ZeroComponent(grid, S) ==
    LET T == S \cup { d \in ZeroCells(grid) : \E c \in S : d \in Neighbours(c) }
    IN IF T = S THEN S ELSE ZeroComponent(grid, T)

\* That component together with every in-bounds neighbour of one of its cells.
ComponentWithBorder(grid, t) ==
    LET K == ZeroComponent(grid, {t})
    IN K \cup UNION { Neighbours(c) : c \in K }

\* C3: in a world with no cell revealed or flagged, revealCell on a mine-free cell
\* with adjacentMines = 0 reveals exactly the zero-adjacency component of the
\* target plus the neighbours of its cells, and no mine; on a mine-free world it
\* reveals every cell and returns one record per cell.
C3_FloodFillExact ==
    [][ ( /\ last'.op = "reveal_cell"
          /\ InWorld(last'.target)
          /\ RevealedCells(completeGrid) = {}
          /\ FlaggedCells(completeGrid) = {}
          /\ ~Cell(completeGrid, last'.target).hasMine
          /\ Cell(completeGrid, last'.target).adjacentMines = 0 )
        => ( /\ RevealedCells(completeGrid')
                    = ComponentWithBorder(completeGrid, last'.target)
             /\ RevealedCells(completeGrid') \cap MineCells(completeGrid) = {}
             /\ MineCells(completeGrid) = {}
                    => /\ RevealedCells(completeGrid') = Cells
                       /\ Len(last'.ret) = Cardinality(Cells) ) ]_vars

\* A flood fill from a zero cell of an untouched world with a mine has run, and it
\* left a mine-free cell unrevealed.
C3_Witness ==
    /\ last.op = "reveal_cell"
    /\ InWorld(last.target)
    /\ Cell(completeGrid, last.target).adjacentMines = 0
    /\ ~Cell(completeGrid, last.target).hasMine
    /\ Len(last.ret) > 1
    /\ FlaggedCells(completeGrid) = {}
    /\ RevealedCells(completeGrid) = RetCells(last.ret)
    /\ \E c \in Cells : ~Cell(completeGrid, c).hasMine /\ ~Cell(completeGrid, c).revealed

\* C4: for every revealCell and handleChordClick call the cells of the returned
\* list are exactly the cells whose revealed field went from false to true.
C4_ReturnedIsNewlyRevealed ==
    [][ last'.op \in {"reveal_cell", "chord_click"}
        => RetCells(last'.ret)
              = RevealedCells(completeGrid') \ RevealedCells(completeGrid) ]_vars

\* A chord has returned at least two records.
C4_Witness ==
    /\ last.op = "chord_click"
    /\ Len(last.ret) >= 2

\* C5: revealCell returns the empty list and changes no cell and no counter when
\* the translated coordinate is outside the world or the target is already
\* revealed or flagged.
C5_RevealNoOp ==
    [][ ( /\ last'.op = "reveal_cell"
          /\ \/ ~InWorld(last'.target)
             \/ Cell(completeGrid, last'.target).revealed
             \/ Cell(completeGrid, last'.target).flagged )
        => ( /\ last'.ret = <<>>
             /\ completeGrid' = completeGrid
             /\ bombsExploded' = bombsExploded
             /\ uniqueUsersEver' = uniqueUsersEver ) ]_vars

\* revealCell has run on a flagged cell.
C5_Witness ==
    /\ last.op = "reveal_cell"
    /\ InWorld(last.target)
    /\ Cell(completeGrid, last.target).flagged
    /\ last.ret = <<>>

\* C6: revealCell on an in-bounds, unrevealed, unflagged mine cell marks exactly
\* that cell revealed, adds exactly 1 to bombsExploded, changes no other cell and
\* returns one record, whose cell has a mine and is revealed.
C6_RevealMine ==
    [][ ( /\ last'.op = "reveal_cell"
          /\ InWorld(last'.target)
          /\ ~Cell(completeGrid, last'.target).revealed
          /\ ~Cell(completeGrid, last'.target).flagged
          /\ Cell(completeGrid, last'.target).hasMine )
        => ( /\ completeGrid' = [completeGrid EXCEPT
                    ![last'.target[2]][last'.target[1]].revealed = TRUE]
             /\ bombsExploded' = bombsExploded + 1
             /\ Len(last'.ret) = 1
             /\ last'.ret[1].cell = last'.target
             /\ Cell(completeGrid', last'.ret[1].cell).hasMine
             /\ Cell(completeGrid', last'.ret[1].cell).revealed ) ]_vars

\* revealCell has exploded a mine.
C6_Witness ==
    /\ last.op = "reveal_cell"
    /\ InWorld(last.target)
    /\ Len(last.ret) = 1
    /\ Cell(completeGrid, last.target).hasMine
    /\ Cell(completeGrid, last.target).revealed
    /\ bombsExploded = 1

\* C7 as stated: for any in-bounds cell without a mine that was not revealed
\* before, the first of two consecutive revealCell calls on it returns a non-empty
\* list and the second returns the empty list.
C7_Original ==
    [][ /\ ( /\ last'.op = "reveal_cell"
             /\ InWorld(last'.target)
             /\ ~Cell(completeGrid, last'.target).hasMine
             /\ ~Cell(completeGrid, last'.target).revealed )
           => last'.ret # <<>>
        /\ ( /\ last.op = "reveal_cell"
             /\ last'.op = "reveal_cell"
             /\ InWorld(last.target)
             /\ last'.target = last.target
             /\ ~Cell(completeGrid, last.target).hasMine )
           => last'.ret = <<>> ]_vars

\* C7 amended: for any in-bounds cell without a mine that is neither revealed nor
\* flagged, the first of two consecutive revealCell calls on it returns a
\* non-empty list and the second returns the empty list.
C7_RevealTwice ==
    [][ /\ ( /\ last'.op = "reveal_cell"
             /\ InWorld(last'.target)
             /\ ~Cell(completeGrid, last'.target).hasMine
             /\ ~Cell(completeGrid, last'.target).revealed
             /\ ~Cell(completeGrid, last'.target).flagged )
           => last'.ret # <<>>
        /\ ( /\ last.op = "reveal_cell"
             /\ last.ret # <<>>
             /\ last'.op = "reveal_cell"
             /\ InWorld(last.target)
             /\ last'.target = last.target
             /\ ~Cell(completeGrid, last.target).hasMine )
           => last'.ret = <<>> ]_vars

\* Two handlers have run, the second a revealCell that returned the empty list for
\* a mine-free cell which is the only revealed cell: the first was the revealCell
\* that revealed it.
C7_Witness ==
    /\ nops = 2
    /\ last.op = "reveal_cell"
    /\ InWorld(last.target)
    /\ last.ret = <<>>
    /\ ~Cell(completeGrid, last.target).hasMine
    /\ RevealedCells(completeGrid) = {last.target}

ChordFlagged(grid, t) == { d \in Neighbours(t) : Cell(grid, d).flagged }

ChordRevealedMines(grid, t) ==
    { d \in Neighbours(t) : Cell(grid, d).revealed /\ Cell(grid, d).hasMine }

\* The target is a revealed numbered cell.
ChordNumbered(grid, t) ==
    /\ InWorld(t)
    /\ Cell(grid, t).revealed
    /\ Cell(grid, t).adjacentMines > 0

\* Flagged neighbours plus revealed mine neighbours.
ChordTotal(grid, t) ==
    Cardinality(ChordFlagged(grid, t)) + Cardinality(ChordRevealedMines(grid, t))

ChordReady(grid, t) ==
    /\ ChordNumbered(grid, t)
    /\ ChordTotal(grid, t) = Cell(grid, t).adjacentMines

\* C8: a chord on a revealed cell with adjacentMines = N > 0 whose flagged plus
\* revealed-mine neighbours number N leaves every neighbour that was not flagged
\* revealed, and every flagged neighbour unrevealed and flagged.
C8_ChordReveals ==
    [][ ( /\ last'.op = "chord_click"
          /\ ChordReady(completeGrid, last'.target) )
        => \A d \in Neighbours(last'.target) :
              IF Cell(completeGrid, d).flagged
              THEN ~Cell(completeGrid', d).revealed /\ Cell(completeGrid', d).flagged
              ELSE Cell(completeGrid', d).revealed ]_vars

\* A chord has revealed cells around a target that has a flagged neighbour and at
\* least two unflagged ones.
C8_Witness ==
    /\ last.op = "chord_click"
    /\ ChordNumbered(completeGrid, last.target)
    /\ Len(last.ret) >= 2
    /\ ChordFlagged(completeGrid, last.target) # {}
    /\ \A d \in Neighbours(last.target) :
          Cell(completeGrid, d).flagged \/ Cell(completeGrid, d).revealed

\* C9: a chord returns the empty list and changes no cell and no counter when the
\* target is out of bounds, unrevealed, has adjacentMines = 0, or its flagged plus
\* revealed-mine neighbours differ in number from adjacentMines; when they agree
\* on a revealed numbered cell the list is non-empty unless every unflagged
\* neighbour was already revealed.
C9_ChordNoOp ==
    [][ last'.op = "chord_click"
        => /\ ~ChordReady(completeGrid, last'.target)
                => ( /\ last'.ret = <<>>
                     /\ completeGrid' = completeGrid
                     /\ bombsExploded' = bombsExploded
                     /\ uniqueUsersEver' = uniqueUsersEver )
           /\ ChordReady(completeGrid, last'.target)
                => \/ last'.ret # <<>>
                   \/ \A d \in Neighbours(last'.target) :
                         Cell(completeGrid, d).flagged \/ Cell(completeGrid, d).revealed ]_vars

\* A chord has run on a revealed numbered cell whose count did not match, while a
\* neighbour was still hidden.
C9_Witness ==
    /\ last.op = "chord_click"
    /\ ChordNumbered(completeGrid, last.target)
    /\ ChordTotal(completeGrid, last.target) # Cell(completeGrid, last.target).adjacentMines
    /\ last.ret = <<>>
    /\ \E d \in Neighbours(last.target) : ~Cell(completeGrid, d).revealed

\* What revealing the cells S and flooding on from them reveals: S and every
\* hidden, unflagged, mine-free cell reached through mine-free zero cells.
RECURSIVE SafeClosure(_, _)
SafeClosure(grid, S) ==
    LET T == S \cup
             { d \in Cells :
                  /\ ~Cell(grid, d).revealed
                  /\ ~Cell(grid, d).flagged
                  /\ ~Cell(grid, d).hasMine
                  /\ \E c \in S : /\ d \in Neighbours(c)
                                  /\ Cell(grid, c).adjacentMines = 0
                                  /\ ~Cell(grid, c).hasMine }
    IN IF T = S THEN S ELSE SafeClosure(grid, T)

\* The hidden unflagged neighbours of t with, and without, a mine.
ChordMineCandidates(grid, t) ==
    { d \in Neighbours(t) :
         Cell(grid, d).hasMine /\ ~Cell(grid, d).flagged /\ ~Cell(grid, d).revealed }

ChordSafeCandidates(grid, t) ==
    { d \in Neighbours(t) :
         ~Cell(grid, d).hasMine /\ ~Cell(grid, d).flagged /\ ~Cell(grid, d).revealed }

\* C10: when a chord's total matches although a flag sits on a safe cell, every
\* hidden unflagged mine neighbour is revealed and returned, bombsExploded grows
\* by their number, and nothing is revealed beyond them and the flood fills of
\* the safe candidates.
C10_ChordWrongFlags ==
    [][ ( /\ last'.op = "chord_click"
          /\ ChordReady(completeGrid, last'.target)
          /\ \E d \in ChordFlagged(completeGrid, last'.target) :
                ~Cell(completeGrid, d).hasMine )
        => LET M == ChordMineCandidates(completeGrid, last'.target)
               S == ChordSafeCandidates(completeGrid, last'.target)
           IN /\ M \subseteq RevealedCells(completeGrid')
              /\ M \subseteq RetCells(last'.ret)
              /\ bombsExploded' = bombsExploded + Cardinality(M)
              /\ RevealedCells(completeGrid') \ RevealedCells(completeGrid)
                    \subseteq M \cup SafeClosure(completeGrid, S) ]_vars

\* A chord with a flag on a safe neighbour has exploded a mine, and a mine-free
\* cell is still hidden.
C10_Witness ==
    /\ last.op = "chord_click"
    /\ InWorld(last.target)
    /\ \E d \in ChordFlagged(completeGrid, last.target) : ~Cell(completeGrid, d).hasMine
    /\ \E i \in DOMAIN last.ret : Cell(completeGrid, last.ret[i].cell).hasMine
    /\ bombsExploded = 1
    /\ \E c \in Cells : /\ ~Cell(completeGrid, c).hasMine
                        /\ ~Cell(completeGrid, c).revealed
                        /\ ~Cell(completeGrid, c).flagged

\* C11: a flag_cell request on a revealed cell never changes that cell's flagged
\* field, and a reveal_cell request on a flagged cell never changes that cell's
\* revealed field.
C11_FlagRevealExclusion ==
    [][ /\ ( /\ last'.op = "flag_cell"
             /\ InWorld(last'.target)
             /\ Cell(completeGrid, last'.target).revealed )
           => Cell(completeGrid', last'.target).flagged
                 = Cell(completeGrid, last'.target).flagged
        /\ ( /\ last'.op = "reveal_cell"
             /\ InWorld(last'.target)
             /\ Cell(completeGrid, last'.target).flagged )
           => Cell(completeGrid', last'.target).revealed
                 = Cell(completeGrid, last'.target).revealed ]_vars

\* A flag_cell request has just been refused on a revealed cell of a world in
\* which another cell carries a flag.
C11_Witness ==
    /\ last.op = "flag_cell"
    /\ InWorld(last.target)
    /\ Cell(completeGrid, last.target).revealed
    /\ ~Cell(completeGrid, last.target).flagged
    /\ last.emits = <<>>
    /\ FlaggedCells(completeGrid) # {}

\* The request that addresses cell c through the chunk that holds it.
RequestFor(c) ==
    [cx |-> FloorDiv(c[1], CHUNK_SIZE), cy |-> FloorDiv(c[2], CHUNK_SIZE),
     x |-> JsMod(c[1], CHUNK_SIZE), y |-> JsMod(c[2], CHUNK_SIZE)]

\* C12: a flag_cell request on an in-bounds unrevealed cell flips that cell's
\* flagged field, broadcasts that one cell and changes nothing else in the grid or
\* the counters, so that a second flag request on the cell restores the grid; a
\* flag_cell request that is out of bounds or targets a revealed cell changes
\* nothing and broadcasts nothing.
C12_FlagToggle ==
    [][ last'.op = "flag_cell"
        => LET t == last'.target
           IN /\ bombsExploded' = bombsExploded
              /\ uniqueUsersEver' = uniqueUsersEver
              /\ IF InWorld(t) /\ ~Cell(completeGrid, t).revealed
                 THEN /\ completeGrid'
                           = [completeGrid EXCEPT ![t[2]][t[1]].flagged = ~@]
                      /\ Len(last'.emits) = 1
                      /\ last'.emits[1].cell = t
                      /\ LET q == RequestFor(t)
                         IN flagCell(completeGrid', q.cx, q.cy, q.x, q.y).grid
                               = completeGrid
                 ELSE /\ completeGrid' = completeGrid
                      /\ last'.emits = <<>> ]_vars

\* Two handlers have run, the second a flag_cell that broadcast its cell, and no
\* cell is flagged or revealed: the second request removed the flag the first set.
C12_Witness ==
    /\ nops = 2
    /\ last.op = "flag_cell"
    /\ InWorld(last.target)
    /\ Len(last.emits) = 1
    /\ FlaggedCells(completeGrid) = {}
    /\ RevealedCells(completeGrid) = {}

\* The positions of chunk (cx,cy) that lie in the world, as <<x, y, gridX, gridY>>.
ChunkWorldCells(cx, cy) ==
    { <<x, y, cx * CHUNK_SIZE + x, cy * CHUNK_SIZE + y>> : x \in ChunkIdx, y \in ChunkIdx }
       \cap (ChunkIdx \X ChunkIdx \X Xs \X Ys)

\* C13: the chunk a get_chunk request is answered with carries, for each of its
\* in-bounds cells, the revealed and flagged values the cell has in completeGrid
\* at the time of the request.
C13_ChunkFresh ==
    (last.op = "get_chunk" /\ ~last.threw)
    => \A p \in ChunkWorldCells(last.target[1], last.target[2]) :
          /\ last.chunk[p[2]][p[1]].revealed = completeGrid[p[4]][p[3]].revealed
          /\ last.chunk[p[2]][p[1]].flagged = completeGrid[p[4]][p[3]].flagged

\* The positions of chunk (cx,cy) that lie outside the world, as <<x, y>>.
ChunkOutsideCells(cx, cy) ==
    { q \in ChunkIdx \X ChunkIdx :
         ~InBounds(cx * CHUNK_SIZE + q[1], cy * CHUNK_SIZE + q[2]) }

\* A cell object that has the four state fields with their default values.
IsPlaceholder(c) ==
    /\ {"revealed", "hasMine", "adjacentMines", "flagged"} \subseteq DOMAIN c
    /\ c.revealed = FALSE
    /\ c.hasMine = FALSE
    /\ c.adjacentMines = 0
    /\ c.flagged = FALSE

\* C14: extracting a chunk never fails, whatever the chunk coordinate, and every
\* position of the chunk that lies outside the world is a placeholder cell with
\* revealed = false, hasMine = false, adjacentMines = 0, flagged = false.
C14_ExtractNeverFails ==
    last.op = "get_chunk"
    => /\ ~last.threw
       /\ \A q \in ChunkOutsideCells(last.target[1], last.target[2]) :
             IsPlaceholder(last.chunk[q[2]][q[1]])

\* C15: a get_chunk request leaves completeGrid and both counters unchanged, and
\* the chunk objects handed out earlier hold value copies: a reveal, flag or chord
\* request does not change the field values read from any of them.
C15_ChunkIsCopy ==
    [][ /\ last'.op = "get_chunk"
           => /\ completeGrid' = completeGrid
              /\ bombsExploded' = bombsExploded
              /\ uniqueUsersEver' = uniqueUsersEver
        /\ last'.op \in {"reveal_cell", "flag_cell", "chord_click"}
           => \A k \in DOMAIN gridChunks :
                 /\ k \in DOMAIN gridChunks'
                 /\ ChunkValues(completeGrid', gridChunks'[k])
                       = ChunkValues(completeGrid, gridChunks[k]) ]_vars

\* A reveal_cell has revealed a cell of a chunk that was handed out before, and
\* the chunk object still reads unrevealed for it.
C15_Witness ==
    /\ last.op = "reveal_cell"
    /\ last.ret # <<>>
    /\ \E k \in DOMAIN gridChunks : \E p \in ChunkWorldCells(k[1], k[2]) :
          /\ completeGrid[p[4]][p[3]].revealed
          /\ ~ChunkValues(completeGrid, gridChunks[k])[p[2]][p[1]].revealed

\* C16: immediately after a reset no cell is revealed, no cell is flagged, the
\* chunk cache is empty, every cell's adjacentMines counts its neighbouring mines
\* and the number of mines is the rounded density.
C16_ResetDiscards ==
    last.op = "reset"
    => /\ RevealedCells(completeGrid) = {}
       /\ FlaggedCells(completeGrid) = {}
       /\ DOMAIN gridChunks = {}
       /\ \A c \in Cells :
             Cell(completeGrid, c).adjacentMines
                = Cardinality(MineCells(completeGrid) \cap Neighbours(c))
       /\ IsRounded(Cardinality(MineCells(completeGrid)),
                    GRID_WIDTH * GRID_HEIGHT, MINE_PERCENTAGE)

\* Two handlers have run: one that exploded a mine, then the reset, which left a
\* world with a mine and nothing revealed.
C16_Witness ==
    /\ nops = 2
    /\ last.op = "reset"
    /\ bombsExploded = 1
    /\ MineCells(completeGrid) # {}
    /\ RevealedCells(completeGrid) = {}

\* C17: no handler other than the reset ever turns a revealed cell back into an
\* unrevealed one: across reveal, flag, chord and chunk requests the set of
\* revealed cells only grows.
C17_RevealedMonotonic ==
    [][ last'.op # "reset"
        => RevealedCells(completeGrid) \subseteq RevealedCells(completeGrid') ]_vars

\* A chunk request has been served on a world that has revealed cells and hidden
\* ones.
C17_Witness ==
    /\ last.op = "get_chunk"
    /\ ~last.threw
    /\ RevealedCells(completeGrid) # {}
    /\ RevealedCells(completeGrid) # Cells

\* C18: no reveal, chord, flag or chunk request changes any cell's hasMine,
\* adjacentMines or position, and reveal and chord requests change no cell's
\* flagged field either: revealed is the only field they write.
C18_FrameOfCellFields ==
    [][ /\ last'.op \in {"reveal_cell", "chord_click", "flag_cell", "get_chunk"}
           => \A c \in Cells :
                 /\ Cell(completeGrid', c).hasMine = Cell(completeGrid, c).hasMine
                 /\ Cell(completeGrid', c).adjacentMines
                       = Cell(completeGrid, c).adjacentMines
                 /\ Cell(completeGrid', c).x = Cell(completeGrid, c).x
                 /\ Cell(completeGrid', c).y = Cell(completeGrid, c).y
        /\ last'.op \in {"reveal_cell", "chord_click"}
           => \A c \in Cells :
                 Cell(completeGrid', c).flagged = Cell(completeGrid, c).flagged ]_vars

\* A chord has revealed cells next to a flagged mine, which is still a flagged,
\* hidden mine.
C18_Witness ==
    /\ last.op = "chord_click"
    /\ last.ret # <<>>
    /\ \E d \in Neighbours(last.target) :
          /\ Cell(completeGrid, d).flagged
          /\ Cell(completeGrid, d).hasMine
          /\ ~Cell(completeGrid, d).revealed

\* C19: a reveal, flag or chord request whose local x or y lies outside
\* [0, CHUNK_SIZE) translates to a global coordinate outside the world and changes
\* no state.
C19_LocalOutOfRange ==
    [][ \A req \in Requests :
           ( /\ ~isValidCellCoords(req.x, req.y)
             /\ (RevealCellReq(req) \/ FlagCellReq(req) \/ ChordClickReq(req)) )
           => /\ ~InBounds(GlobalOf(req)[1], GlobalOf(req)[2])
              /\ UNCHANGED <<completeGrid, gridChunks, uniqueUsersEver,
                             bombsExploded>> ]_vars

\* C20: bombsExploded and uniqueUsersEver are never negative and never decrease,
\* whatever handler runs, the reset included; uniqueUsersEver changes only in a
\* user_connect with firstTime set, and then grows by exactly 1.
C20_CountersGrow ==
    [][ /\ bombsExploded >= 0 /\ bombsExploded' >= bombsExploded
        /\ uniqueUsersEver >= 0 /\ uniqueUsersEver' >= uniqueUsersEver
        /\ uniqueUsersEver' # uniqueUsersEver
           => /\ UserConnectWith(TRUE)
              /\ uniqueUsersEver' = uniqueUsersEver + 1 ]_vars

\* A reset has run after a first-time user had been counted, and the count stands.
C20_Witness ==
    /\ last.op = "reset"
    /\ uniqueUsersEver = 1

\* C24 as stated: for each of reveal, flag-toggle and chord, the same request
\* submitted again immediately after it was applied leaves every cell's revealed
\* and flagged fields and the exploded-mine counter as the first application left
\* them.
C24_Original ==
    [][ ( /\ last'.op \in {"reveal_cell", "flag_cell", "chord_click"}
          /\ last.op = last'.op
          /\ last.target = last'.target )
        => /\ completeGrid' = completeGrid
           /\ bombsExploded' = bombsExploded ]_vars

\* C24 amended: a reveal or chord request submitted again immediately after it
\* was applied leaves the grid and the exploded-mine counter as the first
\* application left them; a flag-toggle submitted again on an in-bounds unrevealed
\* cell flips the flag back and changes nothing else.
C24_RetryIsHarmless ==
    [][ /\ ( /\ last'.op \in {"reveal_cell", "chord_click"}
             /\ last.op = last'.op
             /\ last.target = last'.target )
           => /\ completeGrid' = completeGrid
              /\ bombsExploded' = bombsExploded
        /\ ( /\ last'.op = "flag_cell"
             /\ last.op = "flag_cell"
             /\ last.target = last'.target
             /\ last.emits # <<>> )
           => /\ completeGrid' = [completeGrid EXCEPT
                    ![last.target[2]][last.target[1]].flagged = ~@]
              /\ bombsExploded' = bombsExploded ]_vars

\* A chord that revealed cells has been submitted again and returned the empty
\* list.
C24_Witness ==
    /\ last.op = "chord_click"
    /\ InWorld(last.target)
    /\ last.ret = <<>>
    /\ nops = 3
    /\ ChordNumbered(completeGrid, last.target)
    /\ ChordTotal(completeGrid, last.target)
          = Cell(completeGrid, last.target).adjacentMines
    /\ \E d \in Neighbours(last.target) :
          Cell(completeGrid, d).flagged /\ Cell(completeGrid, d).hasMine
    /\ Cardinality(RevealedCells(completeGrid)) > 1
    /\ RevealedCells(completeGrid) # Cells \ MineCells(completeGrid)

\* C30: in every reachable state, whatever reveal, flag, chord, reset and
\* /reveal-all requests have run, no cell is both revealed and flagged.
C30_NeverRevealedAndFlagged ==
    RevealedCells(completeGrid) \cap FlaggedCells(completeGrid) = {}

\* /reveal-all has run on a world with a flagged cell: that cell alone stays
\* hidden.
C30_Witness ==
    /\ last.op = "reveal_all"
    /\ FlaggedCells(completeGrid) # {}
    /\ RevealedCells(completeGrid) = Cells \ FlaggedCells(completeGrid)

\* The cells a reveal or chord on target t starts from: the target itself, or the
\* neighbours of the chorded cell.
StartCells(op, t) ==
    IF ~InWorld(t) THEN {}
    ELSE IF op = "reveal_cell" THEN {t} ELSE Neighbours(t)

\* C27: in any reveal or chord no flagged cell is revealed, a mine is revealed
\* only as the target of the reveal or as an unflagged neighbour of the chorded
\* cell, and every other newly revealed cell is mine-free and reached from a start
\* cell through zero cells only: the fill does not expand from a numbered cell.
C27_FloodSafety ==
    [][ last'.op \in {"reveal_cell", "chord_click"}
        => LET N == RevealedCells(completeGrid') \ RevealedCells(completeGrid)
               starts == StartCells(last'.op, last'.target)
               hidden == { c \in starts : /\ ~Cell(completeGrid, c).revealed
                                          /\ ~Cell(completeGrid, c).flagged }
           IN /\ N \cap FlaggedCells(completeGrid) = {}
              /\ N \cap MineCells(completeGrid) \subseteq hidden
              /\ N \subseteq SafeClosure(completeGrid, hidden) ]_vars

\* A reveal has filled a region of a world with a mine and a flag: a flagged cell
\* next to a revealed zero cell and a safe cell next to a revealed numbered cell are
\* still hidden.
C27_Witness ==
    /\ last.op = "reveal_cell"
    /\ Len(last.ret) >= 2
    /\ MineCells(completeGrid) \cap RevealedCells(completeGrid) = {}
    /\ \E f \in FlaggedCells(completeGrid) : \E z \in Neighbours(f) :
          Cell(completeGrid, z).revealed /\ Cell(completeGrid, z).adjacentMines = 0
    /\ \E c \in Cells : \E n \in Neighbours(c) :
          /\ ~Cell(completeGrid, c).revealed
          /\ ~Cell(completeGrid, c).hasMine
          /\ ~Cell(completeGrid, c).flagged
          /\ Cell(completeGrid, n).revealed
          /\ Cell(completeGrid, n).adjacentMines > 0

\* C28: in every reachable state and for every in-bounds cell without a mine,
\* revealCellWithFlood called for the cell's global coordinate reveals exactly the
\* cells revealCell reveals when called for the same coordinate.
C28_FloodsAgree ==
    \A c \in Cells \ MineCells(completeGrid) :
        LET q == RequestFor(c)
        IN RevealedCells(revealCellWithFlood(completeGrid, c[1], c[2]).grid)
              = RevealedCells(revealCell(completeGrid, bombsExploded,
                                         q.cx, q.cy, q.x, q.y).grid)

\* A chord has run whose safe candidate was a zero cell, so that
\* revealCellWithFlood filled a region, in a world where a flag is set.
C28_Witness ==
    /\ last.op = "chord_click"
    /\ \E i \in DOMAIN last.ret : Cell(completeGrid, last.ret[i].cell).adjacentMines = 0
    /\ FlaggedCells(completeGrid) # {}

\* A returned list is bounded by the size of the world and names no coordinate twice.
BoundedNoRepeat(ret) ==
    /\ Len(ret) <= GRID_WIDTH * GRID_HEIGHT
    /\ Cardinality(RetCells(ret)) = Len(ret)

\* C23: in every reachable state every reveal and chord call returns, whatever
\* the request, with a list that names each coordinate at most once, so that one
\* call reveals at most GRID_WIDTH * GRID_HEIGHT cells.
C23_FloodTerminates ==
    \A req \in Requests :
        /\ BoundedNoRepeat(revealCell(completeGrid, bombsExploded,
                                      req.cx, req.cy, req.x, req.y).ret)
        /\ BoundedNoRepeat(handleChordClick(completeGrid, bombsExploded,
                                            req.cx, req.cy, req.x, req.y).ret)

\* A single reveal has filled the whole of a mine-free world: the returned list
\* has one record for each of the GRID_WIDTH * GRID_HEIGHT cells.
C23_Witness ==
    /\ last.op = "reveal_cell"
    /\ Len(last.ret) = GRID_WIDTH * GRID_HEIGHT
    /\ RevealedCells(completeGrid) = Cells

\* The running call has made some of its grid writes and not yet all of them.
Torn == call.op # "none" /\ call.written > 0 /\ call.written < WritesOf(call)

\* A step in which a callback is called and reads the grid.
HandlerStarts ==
    \/ GetChunk
    \/ FlagCell
    \/ call' # call /\ call'.op # "none" /\ call'.written = 0

C22_BroadcastMatchesList ==
    [][ call.op \in {"reveal_cell", "chord_click"} =>
          /\ call'.op \in {call.op, "none"}
          /\ call'.op = call.op =>
                /\ nops' = nops /\ last' = last
                /\ call'.ret = call.ret
                /\ call'.emitted # call.emitted =>
                      /\ call.written = Len(call.ret)
                      /\ completeGrid = call.grid /\ completeGrid' = completeGrid
                      /\ bombsExploded = call.bombs
                      /\ Len(call'.emitted) = Len(call.emitted) + 1
          /\ call'.op = "none" =>
                /\ completeGrid = call.grid
                /\ last'.op = call.op
                /\ Len(last'.emits) = Len(call.ret)
                /\ \A i \in 1 .. Len(call.ret) : last'.emits[i] = cellUpdate(call.ret[i])
                /\ (call.grid = call.pre /\ call.bombs = bombsExploded /\ call.ret = <<>>)
                      \/ (call.grid # call.pre /\ last'.emits # <<>>) ]_vars

\* A flood fill of several cells has returned and all its events were broadcast.
C22_Witness ==
    /\ call = Idle
    /\ last.op = "reveal_cell"
    /\ Len(last.emits) >= 3
    /\ RetCells(last.ret) \subseteq RevealedCells(completeGrid)

\* The cells of the grid under construction that hold a mine.
BootMines ==
    { c \in (DOMAIN completeGrid) \X BootSides :
         c[2] \in DOMAIN completeGrid[c[1]] /\ completeGrid[c[1]][c[2]].hasMine }

\* The configuration the specification calls invalid.
InvalidConfig ==
    \/ call.width <= 0
    \/ call.height <= 0
    \/ MINE_PERCENTAGE < 0
    \/ MINE_PERCENTAGE >= 100

\* C25: with a width or height <= 0, or a mine percentage outside [0,1),
\* initialization fails and the grid never becomes usable.
C25_InvalidConfigRejected ==
    InvalidConfig => call.pc # "ready"

\* The placement loop is running on a proper grid.
Placing == call.pc = "place" /\ call.width > 0 /\ call.height > 0

\* C29: under a fair choice of coordinates the placement loop, when its target
\* is between 0 and width*height, is left with exactly the target number of
\* distinct mine cells; when the target exceeds the number of cells the loop is
\* never left.
C29_PlacementTerminates ==
    /\ [](Placing /\ call.mineCount >= 0 /\ call.mineCount <= call.width * call.height
            => <>(call.pc = "ready" /\ Cardinality(BootMines) = call.mineCount))
    /\ [](Placing /\ call.mineCount > call.width * call.height
            => [](call.pc = "place"))

\* The loop was left on a 2x2 grid with the two mines its target asks for.
C29_Witness ==
    /\ call.pc = "ready"
    /\ call.width = 2 /\ call.height = 2
    /\ call.mineCount = 2
    /\ Cardinality(BootMines) = 2

\* The materialized cell at a global position of the lazily-chunked world, if any.
LazyMaterialized(chunks, gx, gy) ==
    /\ gx >= 0 /\ gy >= 0
    /\ <<gx \div CHUNK_SIZE, gy \div CHUNK_SIZE>> \in DOMAIN chunks

LazyCell(chunks, gx, gy) ==
    chunks[<<gx \div CHUNK_SIZE, gy \div CHUNK_SIZE>>][gy % CHUNK_SIZE][gx % CHUNK_SIZE]

\* The mines among the 8 neighbours of a position, over the materialized chunks.
LazyMinesAround(chunks, gx, gy) ==
    Cardinality({ i \in DOMAIN Offsets :
        /\ LazyMaterialized(chunks, gx + Offsets[i][1], gy + Offsets[i][2])
        /\ LazyCell(chunks, gx + Offsets[i][1], gy + Offsets[i][2]).hasMine })

\* C26: in the lazily-chunked variant, whatever chunks get_chunk, reveal_cell and
\* flag_cell have created, every materialized cell's adjacentMines is the number
\* of mines among its 8 neighbours in the materialized chunks, those of a chunk
\* created later included.
C26_LazyCountsExact ==
    \A key \in DOMAIN gridChunks : \A x \in ChunkIdx, y \in ChunkIdx :
        gridChunks[key][y][x].adjacentMines =
            LazyMinesAround(gridChunks, key[1] * CHUNK_SIZE + x, key[2] * CHUNK_SIZE + y)

\* C31: while only reveal, flag and chord requests have run since start-up (no
\* reset, no /reveal-all), bombsExploded is the number of cells that hold a mine
\* and are revealed.
C31_BombsAreRevealedMines ==
    bombsExploded = Cardinality(MineCells(completeGrid) \cap RevealedCells(completeGrid))

\* A chord has just revealed a mine next to a wrongly placed flag.
C31_Witness ==
    /\ last.op = "chord_click"
    /\ bombsExploded = 1
    /\ RetCells(last.ret) \cap MineCells(completeGrid) # {}
    /\ FlaggedCells(completeGrid) # {}

\* The cells of a returned list that hold no mine and have no mine around them.
RetZeroCells(grid, ret) ==
    { c \in RetCells(ret) : ~Cell(grid, c).hasMine /\ Cell(grid, c).adjacentMines = 0 }

\* C32: when a reveal or chord returns, every in-bounds neighbour of each
\* mine-free zero cell of the returned list is revealed or flagged, whatever was
\* revealed or flagged before the call.
C32_ZeroCellsAreSurrounded ==
    [][ last'.op \in {"reveal_cell", "chord_click"}
        => \A c \in RetZeroCells(completeGrid', last'.ret) : \A d \in Neighbours(c) :
               Cell(completeGrid', d).revealed \/ Cell(completeGrid', d).flagged ]_vars

\* A reveal or chord has returned a zero cell in a world where cells were revealed
\* before the call, and a neighbour of that zero cell is flagged and hidden.
C32_Witness ==
    /\ last.op \in {"reveal_cell", "chord_click"}
    /\ RevealedCells(completeGrid) # RetCells(last.ret)
    /\ \E c \in RetZeroCells(completeGrid, last.ret) : \E d \in Neighbours(c) :
          Cell(completeGrid, d).flagged /\ ~Cell(completeGrid, d).revealed

\* C33: the list a reveal or chord returns never holds the same cell twice, also
\* when the flood started from one chord candidate reaches a candidate that comes
\* later in the chord's candidate list.
C33_NoDuplicateRecords ==
    [][ last'.op \in {"reveal_cell", "chord_click"}
        => \A i \in DOMAIN last'.ret : \A j \in DOMAIN last'.ret :
               i # j => last'.ret[i].cell # last'.ret[j].cell ]_vars

\* A chord has returned two of the chorded cell's neighbours, the second of them a
\* neighbour of the first, which is a zero cell: the first candidate's flood
\* revealed the later candidate.
C33_Witness ==
    /\ last.op = "chord_click"
    /\ InWorld(last.target)
    /\ \E i \in DOMAIN last.ret : \E j \in DOMAIN last.ret :
          /\ i < j
          /\ last.ret[i].cell \in Neighbours(last.target)
          /\ last.ret[j].cell \in Neighbours(last.target)
          /\ last.ret[j].cell \in Neighbours(last.ret[i].cell)
          /\ last.ret[i].cell \in RetZeroCells(completeGrid, last.ret)

\* The record's chunk and local coordinates address the cell it refers to.
AddressesItsCell(grid, r) ==
    /\ r.cx * CHUNK_SIZE + r.x = Cell(grid, r.cell).x
    /\ r.cy * CHUNK_SIZE + r.y = Cell(grid, r.cell).y

\* C34: every record returned by a reveal or chord and every cell_update of the
\* flag handler satisfies cx*CHUNK_SIZE + x = cell.x and cy*CHUNK_SIZE + y = cell.y,
\* also for requests whose local coordinates lie outside [0, CHUNK_SIZE).
C34_RecordsAddressTheirCell ==
    last.op \in {"reveal_cell", "chord_click", "flag_cell"}
    => /\ \A i \in DOMAIN last.ret : AddressesItsCell(completeGrid, last.ret[i])
       /\ \A i \in DOMAIN last.emits : AddressesItsCell(completeGrid, last.emits[i])

\* A reveal whose local x is CHUNK_SIZE has returned the single record of a cell
\* of the next chunk, with the request's own chunk and local coordinates.
C34_Witness ==
    /\ last.op = "reveal_cell"
    /\ Len(last.ret) = 1
    /\ last.ret[1].x = CHUNK_SIZE
    /\ last.ret[1].cell[1] = last.ret[1].cx * CHUNK_SIZE + CHUNK_SIZE
    /\ Cell(completeGrid, last.ret[1].cell).revealed
====
